---- MODULE Spec2Model ----
(***************************************************************************)
(* Runnable (async_app/app.py): one Lifecycle driven by an asyncio event   *)
(* loop.  The loop's ready queue is a FIFO of callbacks; every action      *)
(* below is either one callback run by the loop or one call made by code   *)
(* outside the Lifecycle (another task, a signal handler) between two      *)
(* callbacks.  Tasks follow asyncio.Task of Python 3.6 (3.6.2 or later:    *)
(* a task whose coroutine returns while a cancellation is pending ends     *)
(* with CancelledError, which test_abort_from_initialize depends on).      *)
(* Phase bodies are user code: each step of a body may call stop() or      *)
(* abort(), and then returns, raises or suspends on an awaitable of its    *)
(* own; a CancelledError thrown into a body propagates out of it unless    *)
(* the body handles it.                                                    *)
(***************************************************************************)
EXTENDS Integers, Sequences, FiniteSets, TLC

\* ---- bounds ----
MaxStartCalls == 2      \* start() calls made on one Lifecycle
MaxSuspends == 2        \* times the phase bodies of one run suspend on awaitables of their own
NumAwaiters == 1        \* operations that await the Lifecycle
MaxEntries == 2         \* entries registered on the exit stacks
MaxUnwinds == 2         \* unwinds (close() or scope exit) of the exit stacks
MaxHandles == 2         \* future or task handles
MaxAdds == 2            \* add_task() calls made on one group

\* ---- names ----
RunF == "_run_f"
InitializeF == "_initialize_f"
MainF == "_main_f"
CleanupF == "_cleanup_f"
Phases == {InitializeF, MainF, CleanupF}
TaskNames == {RunF} \cup Phases
Awaiters == 1..NumAwaiters

\* exceptions
NoExc == "none"
CancelledError == "CancelledError"
RuntimeError == "RuntimeError"                  \* usage errors raised by start() and __await__
NotImplementedError == "NotImplementedError"    \* the contract violation of run()
PhaseError(p) == IF p = InitializeF THEN "InitializeError"
                 ELSE IF p = MainF THEN "MainError" ELSE "CleanupError"

VARIABLES
    futs,            \* _run_f, _initialize_f, _main_f, _cleanup_f: the four task handles
    run_pc,          \* the await at which the run() coroutine is suspended
    exc_info,        \* the exception run() is handling in its except block (for the bare raise)
    should_stop,     \* _should_stop
    is_initialized,  \* _is_initialized
    is_aborted,      \* _is_aborted
    ready,           \* the loop's FIFO of scheduled callbacks
    awaiter,         \* per awaiting operation: what `await lifecycle` did
    calls,           \* how often initialize(), main(), cleanup(), run() were invoked (the tests' mocks)
    cleanup_args,    \* the exc_val each cleanup() invocation received
    start_calls,     \* start() calls made
    start_errors,    \* start() calls that raised RuntimeError
    suspends,        \* per phase: suspensions of its body so far
    scope,           \* the operation using the Lifecycle as an async scope (`async with`)
    hist,            \* observations: where stop() first took effect, when cancel requests hit
                     \* the run, whether abort() was called, cancel() calls made by stop()/start()
    op,              \* a task suspended in `await lifecycle` that another task may cancel
    app,             \* App.exec(): where the call is, and the registry entry of its loop
    \* AsyncExitStack (async_app/utils.py)
    exit_callbacks,  \* per stack object: _exit_callbacks, the registered entries, last pushed last
    registered,      \* the kind of every entry registered so far; an entry is its index here
    unwind,          \* the __aexit__ coroutine in progress and the locals of its _shutdown_loop
    entry_log,       \* the entries the latest unwind invoked: what each received, how it ended
    context,         \* __context__ of the exceptions raised during the latest unwind
    event,           \* an asyncio.Event shared by the entries (test_deadlock)
    ops,             \* stack operations made so far: unwinds begun, the entries the latest
                     \* unwind found, what pop_all() moved, how often each entry was invoked
    \* TaskGroup and wait_one (async_app/utils.py)
    handles,         \* the futures given to add_task / wait_one: state, outcome, done callbacks
    tasks,           \* TaskGroup._tasks
    loop,            \* the FIFO of callbacks of the loop these futures belong to
    observer,        \* an operation that awaits one handle and then looks at the group
    group_exit,      \* TaskGroup.__aexit__: where it is, and what its asyncio.wait waits for
    joint            \* a wait_one call: where it is, its queue of completed handles, its outcome

lifecycle_vars == <<futs, run_pc, exc_info, should_stop, is_initialized, is_aborted, ready,
                    awaiter, calls, cleanup_args, start_calls, start_errors, suspends, scope, hist,
                    op, app>>

stack_vars == <<exit_callbacks, registered, unwind, entry_log, context, event, ops>>

group_vars == <<handles, tasks, loop, observer, group_exit, joint>>

vars == <<lifecycle_vars, stack_vars, group_vars>>

\* The whole state as one record, so that the methods are functions of it.
Cur == [futs |-> futs, run_pc |-> run_pc, exc_info |-> exc_info, should_stop |-> should_stop,
        is_initialized |-> is_initialized, is_aborted |-> is_aborted, ready |-> ready,
        awaiter |-> awaiter, calls |-> calls, cleanup_args |-> cleanup_args,
        start_calls |-> start_calls, start_errors |-> start_errors,
        suspends |-> suspends, scope |-> scope, hist |-> hist, op |-> op, app |-> app]

Becomes(M) ==
    /\ futs' = M.futs
    /\ run_pc' = M.run_pc
    /\ exc_info' = M.exc_info
    /\ should_stop' = M.should_stop
    /\ is_initialized' = M.is_initialized
    /\ is_aborted' = M.is_aborted
    /\ ready' = M.ready
    /\ awaiter' = M.awaiter
    /\ calls' = M.calls
    /\ cleanup_args' = M.cleanup_args
    /\ start_calls' = M.start_calls
    /\ start_errors' = M.start_errors
    /\ suspends' = M.suspends
    /\ scope' = M.scope
    /\ hist' = M.hist
    /\ op' = M.op
    /\ app' = M.app
    /\ UNCHANGED <<stack_vars, group_vars>>

\* ---- asyncio futures and tasks ----
\* state: NONE (attribute is None), PENDING, FINISHED (result or exception), CANCELLED.
\* fut_waiter: the future the task's coroutine awaits: a task handle, or the
\* body's own awaitable ("ext_pending", "ext_done", "ext_cancelled"), or "none".
\* entered: the coroutine body has begun executing.
NoFut == [state |-> "NONE", exc |-> NoExc, must_cancel |-> FALSE, fut_waiter |-> "none",
          callbacks |-> <<>>, entered |-> FALSE]

Callback(cb, who) == [cb |-> cb, task |-> who]

done(f) == f.state \in {"FINISHED", "CANCELLED"}

cancelled(f) == f.state = "CANCELLED"

\* What awaiting a done future raises (NoExc: it returns the result).
Outcome(f) == IF f.state = "CANCELLED" THEN CancelledError ELSE f.exc

\* Future.set_result / set_exception / cancel of a pending future: the done
\* callbacks are scheduled on the loop in the order they were added.
SetDone(M, t, st, e) ==
    [M EXCEPT !.futs[t].state = st, !.futs[t].exc = e, !.futs[t].must_cancel = FALSE,
              !.futs[t].fut_waiter = "none", !.futs[t].callbacks = <<>>,
              !.ready = M.ready \o M.futs[t].callbacks]

\* An exception leaving a task's coroutine (Task._step): CancelledError
\* cancels the task, anything else becomes its exception.
Raise(M, t, e) ==
    IF e = CancelledError THEN SetDone(M, t, "CANCELLED", NoExc)
    ELSE SetDone(M, t, "FINISHED", e)

\* The coroutine returns (Task._step, StopIteration): a cancellation that is
\* still pending turns the result into CancelledError.
Return(M, t) ==
    IF M.futs[t].must_cancel THEN SetDone(M, t, "FINISHED", CancelledError)
    ELSE SetDone(M, t, "FINISHED", NoExc)

\* asyncio.ensure_future(coro) followed by add_done_callback(cb): a new task
\* whose first step is scheduled on the loop.
ensure_future(M, t, cb) ==
    [M EXCEPT !.futs[t] = [NoFut EXCEPT !.state = "PENDING", !.callbacks = <<Callback(cb, t)>>],
              !.ready = Append(M.ready, Callback("_step", t))]

\* `await fut` inside task t: the task's _wakeup is added to fut's callbacks.
AwaitFut(M, t, fut) ==
    [M EXCEPT !.futs[t].fut_waiter = fut,
              !.futs[fut].callbacks = Append(M.futs[fut].callbacks, Callback("_wakeup", t))]

\* Task.cancel(): <<new state, return value>>.
RECURSIVE cancel(_, _)
cancel(M, t) ==
    LET f == M.futs[t] IN
    IF f.state # "PENDING" THEN <<M, FALSE>>
    ELSE IF f.fut_waiter \in TaskNames
    THEN LET r == cancel(M, f.fut_waiter) IN
         IF r[2] THEN r ELSE <<[M EXCEPT !.futs[t].must_cancel = TRUE], TRUE>>
    ELSE IF f.fut_waiter = "ext_pending"
    THEN <<[M EXCEPT !.futs[t].fut_waiter = "ext_cancelled",
                     !.ready = Append(M.ready, Callback("_wakeup", t))], TRUE>>
    ELSE <<[M EXCEPT !.futs[t].must_cancel = TRUE], TRUE>>

\* The exception Task._step throws into the coroutine (NoExc: send(None)).
StepExc(M, t) ==
    LET f == M.futs[t] IN
    IF f.must_cancel THEN CancelledError
    ELSE IF f.fut_waiter \in TaskNames THEN Outcome(M.futs[f.fut_waiter])
    ELSE IF f.fut_waiter = "ext_cancelled" THEN CancelledError
    ELSE NoExc

\* Task._step up to the send/throw: the pending cancellation is consumed.
BeginStep(M, t) ==
    [M EXCEPT !.futs[t].must_cancel = FALSE, !.futs[t].fut_waiter = "none",
              !.ready = Tail(M.ready)]

\* ---- observations ----
\* What the phase awaited by run() is doing, seen from a caller of cancel().
WaiterState(M) ==
    LET w == M.futs[RunF].fut_waiter IN
    IF w \notin Phases THEN "none"
    ELSE IF done(M.futs[w]) THEN "done"
    ELSE IF M.futs[w].fut_waiter # "none" THEN "suspended"
    ELSE IF M.futs[w].entered THEN "running"
    ELSE "unstarted"

\* Where the run is, seen from a caller of stop().
RunWhere(M) ==
    IF M.futs[RunF].state = "NONE" THEN "not_started"
    ELSE IF done(M.futs[RunF]) THEN "finished"
    ELSE M.run_pc

\* self._run_f.cancel(), with the moment it hit a pending run recorded:
\* after initialize was done and before run() resumed; while main was
\* suspended; after main was done; while cleanup was suspended.
CancelRunF(M) ==
    LET M1 == cancel(M, RunF)[1]
        pc == M.run_pc
        ph == WaiterState(M)
    IN IF M.futs[RunF].state = "PENDING"
       THEN [M1 EXCEPT
               !.hist.cancel_after_initialize = @ \/ (pc = "await_initialize" /\ ph = "done"),
               !.hist.cancel_in_main = @ \/ (pc = "await_main" /\ ph = "suspended"),
               !.hist.cancel_after_main = @ \/ (pc = "await_main" /\ ph = "done")
                                            \/ pc \in {"await_cleanup_except", "await_cleanup_else"},
               !.hist.cancel_in_cleanup = @ \/ (/\ pc \in {"await_cleanup_except", "await_cleanup_else"}
                                                /\ ph = "suspended")]
       ELSE M1

\* stop() that sets the flag and leaves the run handle alone.
StopLeavesRunF(M) == M

\* self._run_f.cancel() called by stop() or start(): the calls are counted
\* (2 stands for more than one).
StopCancelsRunF(M) ==
    [CancelRunF(M) EXCEPT !.hist.stop_cancels = IF @ < 2 THEN @ + 1 ELSE @]

\* ---- Runnable ----
\* Runnable.initialize (the base step).
initialize(M) == [M EXCEPT !.is_initialized = TRUE]

\* stop() without the check that should_stop is still false.
stop_unguarded(M) ==
    LET M1 == [M EXCEPT !.should_stop = TRUE,
                        !.hist.stop_at = IF M.should_stop THEN @ ELSE RunWhere(M)] IN
    IF M1.futs[RunF].state # "NONE" THEN StopCancelsRunF(M1) ELSE M1

\* Runnable.stop.
stop(M) ==
    IF ~M.should_stop
    THEN LET M1 == [M EXCEPT !.should_stop = TRUE, !.hist.stop_at = RunWhere(M)] IN
         IF M1.futs[RunF].state # "NONE" THEN StopCancelsRunF(M1) ELSE M1
    ELSE M

\* abort() that sets the flag without stopping.
abort_no_stop(M) == [M EXCEPT !.is_aborted = TRUE, !.hist.abort_called = TRUE]

\* Runnable.abort.
abort(M) == stop([M EXCEPT !.is_aborted = TRUE, !.hist.abort_called = TRUE])

\* start() without the started-once check.
start_twice(M) ==
    LET M1 == ensure_future([M EXCEPT !.start_calls = @ + 1, !.calls[RunF] = @ + 1,
                                      !.run_pc = "unstarted"],
                            RunF, "on_run_done")
    IN IF M1.should_stop THEN StopCancelsRunF(M1) ELSE M1

\* start() without the cancellation of a run that was stopped beforehand.
start_no_cancel(M) ==
    IF M.futs[RunF].state # "NONE"
    THEN [M EXCEPT !.start_calls = @ + 1, !.start_errors = @ + 1]
    ELSE ensure_future([M EXCEPT !.start_calls = @ + 1, !.calls[RunF] = @ + 1],
                       RunF, "on_run_done")

\* Runnable.start.
start(M) ==
    IF M.futs[RunF].state # "NONE"
    THEN [M EXCEPT !.start_calls = @ + 1, !.start_errors = @ + 1]
    ELSE LET M1 == ensure_future([M EXCEPT !.start_calls = @ + 1, !.calls[RunF] = @ + 1],
                                 RunF, "on_run_done")
         IN IF M1.should_stop THEN StopCancelsRunF(M1) ELSE M1

\* on_run_done() that does not record a failed run as aborted.
on_run_done_no_abort(M) == [M EXCEPT !.should_stop = TRUE]

\* on_run_done() that records a cancelled run as aborted too.
on_run_done_abort_cancelled(M) ==
    LET f == M.futs[RunF] IN
    [M EXCEPT !.is_aborted = IF cancelled(f) \/ f.exc # NoExc THEN TRUE ELSE @,
              !.should_stop = TRUE]

\* on_run_done() that assigns is_aborted from the outcome of a run that was
\* not cancelled.
on_run_done_assign(M) ==
    LET f == M.futs[RunF] IN
    [M EXCEPT !.is_aborted = IF cancelled(f) THEN @ ELSE f.exc # NoExc,
              !.should_stop = TRUE]

\* on_run_done() that does not set should_stop.
on_run_done_no_stop(M) ==
    LET f == M.futs[RunF] IN
    [M EXCEPT !.is_aborted = IF ~cancelled(f) /\ f.exc # NoExc THEN TRUE ELSE @]

\* Runnable.on_run_done.
on_run_done(M) ==
    LET f == M.futs[RunF] IN
    [M EXCEPT !.is_aborted = IF ~cancelled(f) /\ f.exc # NoExc THEN TRUE ELSE @,
              !.should_stop = TRUE]

\* The run() coroutine ends by an exception / by returning.
RunRaise(M, e) == [Raise(M, RunF, e) EXCEPT !.run_pc = "finished"]

RunReturn(M) == [Return(M, RunF) EXCEPT !.run_pc = "finished"]

\* run() schedules phase p, invoking its coroutine function, and awaits it.
SchedulePhase(M, p, cb, pc) ==
    LET M1 == ensure_future([M EXCEPT !.calls[p] = @ + 1], p, cb) IN
    [AwaitFut(M1, RunF, p) EXCEPT !.run_pc = pc]

\* run(), first step: lines 183-185.  exc is what the task throws in.
run_initialize(M, exc) ==
    IF exc # NoExc THEN RunRaise(M, exc)
    ELSE SchedulePhase([M EXCEPT !.futs[RunF].entered = TRUE],
                       InitializeF, "on_initialize_done", "await_initialize")

\* run() going on to main whatever initialize's outcome was.
run_main_unchecked(M, exc) ==
    IF ~M.is_initialized /\ ~M.should_stop THEN RunRaise(M, NotImplementedError)
    ELSE IF M.should_stop THEN RunReturn(M)
    ELSE SchedulePhase(M, MainF, "on_main_done", "await_main")

\* run() without the check that the base initialize was called.
run_main_no_contract(M, exc) ==
    IF exc # NoExc THEN RunRaise(M, exc)
    ELSE IF M.should_stop THEN RunReturn(M)
    ELSE SchedulePhase(M, MainF, "on_main_done", "await_main")

\* run() without the should_stop check after initialize.
run_main_no_stop_check(M, exc) ==
    IF exc # NoExc THEN RunRaise(M, exc)
    ELSE IF ~M.is_initialized /\ ~M.should_stop THEN RunRaise(M, NotImplementedError)
    ELSE SchedulePhase(M, MainF, "on_main_done", "await_main")

\* run() resumed from `await self._initialize_f`: lines 185-195.
run_main(M, exc) ==
    IF exc # NoExc THEN RunRaise(M, exc)
    ELSE IF ~M.is_initialized /\ ~M.should_stop THEN RunRaise(M, NotImplementedError)
    ELSE IF M.should_stop THEN RunReturn(M)
    ELSE SchedulePhase(M, MainF, "on_main_done", "await_main")

\* run() calling cleanup() without the failure information.
run_cleanup_no_exc_info(M, exc) ==
    LET M1 == [M EXCEPT !.cleanup_args = Append(@, NoExc), !.exc_info = exc] IN
    IF exc # NoExc
    THEN SchedulePhase(M1, CleanupF, "on_cleanup_done", "await_cleanup_except")
    ELSE SchedulePhase(M1, CleanupF, "on_cleanup_done", "await_cleanup_else")

\* run() resumed from `await self._main_f`: lines 195-204.
run_cleanup(M, exc) ==
    LET M1 == [M EXCEPT !.cleanup_args = Append(@, exc), !.exc_info = exc] IN
    IF exc # NoExc
    THEN SchedulePhase(M1, CleanupF, "on_cleanup_done", "await_cleanup_except")
    ELSE SchedulePhase(M1, CleanupF, "on_cleanup_done", "await_cleanup_else")

\* run() without the bare raise after cleanup: main's failure is swallowed.
run_finish_swallow(M, exc) ==
    IF exc # NoExc THEN RunRaise(M, exc) ELSE RunReturn(M)

\* run() running cleanup once more after cleanup.
run_finish_cleanup_again(M, exc) ==
    LET M1 == [M EXCEPT !.cleanup_args = Append(@, exc)] IN
    SchedulePhase(M1, CleanupF, "on_cleanup_done", M.run_pc)

\* run() dropping an error of cleanup after a main that returned.
run_finish_ignore_cleanup_error(M, exc) ==
    IF M.run_pc = "await_cleanup_except"
    THEN (IF exc # NoExc THEN RunRaise(M, exc) ELSE RunRaise(M, M.exc_info))
    ELSE IF exc = CancelledError THEN RunRaise(M, exc)
    ELSE RunReturn(M)

\* run() suppressing a cancellation of cleanup.
run_finish_suppress_cancel(M, exc) ==
    IF exc # NoExc /\ exc # CancelledError THEN RunRaise(M, exc)
    ELSE IF M.run_pc = "await_cleanup_except" THEN RunRaise(M, M.exc_info)
    ELSE RunReturn(M)

\* run() resumed from `await self._cleanup_f`: lines 199-200 and 204-205.
run_finish(M, exc) ==
    IF exc # NoExc THEN RunRaise(M, exc)
    ELSE IF M.run_pc = "await_cleanup_except" THEN RunRaise(M, M.exc_info)
    ELSE RunReturn(M)

\* Runnable.run: one step of the coroutine, from its current await.
run(M, exc) ==
    CASE M.run_pc = "unstarted" -> run_initialize(M, exc)
      [] M.run_pc = "await_initialize" -> run_main(M, exc)
      [] M.run_pc = "await_main" -> run_cleanup(M, exc)
      [] OTHER -> run_finish(M, exc)

\* ---- phase bodies (initialize, main, cleanup overrides) ----
\* The body suspends on an awaitable of its own (Task._step, a future is
\* yielded): a cancellation requested earlier in this step cancels it at once.
Suspend(M, p) ==
    LET M1 == [M EXCEPT !.suspends[p] = @ + 1] IN
    IF M1.futs[p].must_cancel
    THEN [M1 EXCEPT !.futs[p].fut_waiter = "ext_cancelled", !.futs[p].must_cancel = FALSE,
                    !.ready = Append(M1.ready, Callback("_wakeup", p))]
    ELSE [M1 EXCEPT !.futs[p].fut_waiter = "ext_pending"]

\* One step of phase p's coroutine.  exc: what the task throws in; catch: the
\* body handles that exception and goes on (a coroutine that has not begun
\* cannot).  act: the Lifecycle method the body calls in this step; sup: the
\* body calls the base initialize; out: how the step ends.
body(M, p, exc, catch, act, sup, out) ==
    IF exc # NoExc /\ ~(catch /\ M.futs[p].entered) THEN Raise(M, p, exc)
    ELSE LET M0 == [M EXCEPT !.futs[p].entered = TRUE]
             M1 == IF act = "stop" THEN stop(M0)
                   ELSE IF act = "abort" THEN abort(M0) ELSE M0
             M2 == IF sup THEN initialize(M1) ELSE M1
         IN CASE out = "return" -> Return(M2, p)
              [] out = "raise" -> Raise(M2, p, PhaseError(p))
              [] out = "cancel" -> Raise(M2, p, CancelledError)
              [] OTHER -> Suspend(M2, p)

\* ---- awaiting the Lifecycle ----
\* __await__ that starts a Lifecycle that is not running instead of raising.
await_starts(M, a) ==
    LET f == M.futs[RunF]
        M1 == start(M)
    IN IF f.state = "NONE"
       THEN [M1 EXCEPT !.awaiter[a] = [state |-> "waiting", exc |-> NoExc],
                       !.futs[RunF].callbacks = Append(@, Callback("awaiter_wakeup", a))]
       ELSE IF done(f) THEN [M EXCEPT !.awaiter[a] = [state |-> "done", exc |-> Outcome(f)]]
       ELSE [M EXCEPT !.awaiter[a] = [state |-> "waiting", exc |-> NoExc],
                      !.futs[RunF].callbacks = Append(@, Callback("awaiter_wakeup", a))]

\* Runnable.__await__ from operation a.
await(M, a) ==
    LET f == M.futs[RunF] IN
    IF f.state = "NONE" THEN [M EXCEPT !.awaiter[a] = [state |-> "raised", exc |-> RuntimeError]]
    ELSE IF done(f) THEN [M EXCEPT !.awaiter[a] = [state |-> "done", exc |-> Outcome(f)]]
    ELSE [M EXCEPT !.awaiter[a] = [state |-> "waiting", exc |-> NoExc],
                   !.futs[RunF].callbacks = Append(@, Callback("awaiter_wakeup", a))]

\* ---- the Lifecycle as an async scope ----
\* Runnable.__aenter__: the scope is entered unless start() raises.
aenter(M) ==
    IF M.futs[RunF].state # "NONE"
    THEN [start(M) EXCEPT !.scope = [state |-> "raised", exc |-> RuntimeError]]
    ELSE [start(M) EXCEPT !.scope = [state |-> "in", exc |-> NoExc]]

\* __aexit__ letting the cancellation out of the scope.
ScopeResume_no_suppress(M, e) ==
    IF e = NoExc THEN [M EXCEPT !.scope = [state |-> "exited", exc |-> NoExc]]
    ELSE [M EXCEPT !.scope = [state |-> "raised", exc |-> e]]

\* `with contextlib.suppress(asyncio.CancelledError): await self` completes
\* with the run's outcome e.
ScopeResume(M, e) ==
    IF e \in {NoExc, CancelledError} THEN [M EXCEPT !.scope = [state |-> "exited", exc |-> NoExc]]
    ELSE [M EXCEPT !.scope = [state |-> "raised", exc |-> e]]

\* Runnable.__aexit__ up to its first suspension.
aexit(M) ==
    LET M1 == stop(M)
        f == M1.futs[RunF]
    IN IF f.state = "NONE" THEN [M1 EXCEPT !.scope = [state |-> "raised", exc |-> RuntimeError]]
       ELSE IF done(f) THEN ScopeResume(M1, Outcome(f))
       ELSE [M1 EXCEPT !.scope = [state |-> "exiting", exc |-> NoExc],
                       !.futs[RunF].callbacks = Append(@, Callback("scope_wakeup", RunF))]

\* ---- a task that awaits the Lifecycle and may be cancelled ----
NoOp == [state |-> "idle", exc |-> NoExc, delegated |-> FALSE, must_cancel |-> FALSE]

\* `await lifecycle` in the task: Runnable.__await__ hands out the awaiting
\* of _run_f itself, so the task waits on the run handle.
op_await(M) ==
    LET f == M.futs[RunF] IN
    IF f.state = "NONE" THEN [M EXCEPT !.op.state = "raised", !.op.exc = RuntimeError]
    ELSE IF done(f) THEN [M EXCEPT !.op.state = "done", !.op.exc = Outcome(f)]
    ELSE [M EXCEPT !.op.state = "waiting",
                   !.futs[RunF].callbacks = Append(@, Callback("op_wakeup", RunF))]

op_cancel_shielded(M) == [M EXCEPT !.op.must_cancel = TRUE, !.op.delegated = TRUE]

\* Task.cancel() on the task while it is suspended in `await lifecycle`:
\* the request goes to what the task waits on, the run handle; only if that
\* refuses (it is done already) the task itself is marked (the mark is kept
\* here after the task has resumed).
op_cancel(M) ==
    IF cancel(M, RunF)[2] THEN [CancelRunF(M) EXCEPT !.op.delegated = TRUE]
    ELSE [M EXCEPT !.op.must_cancel = TRUE]

\* The task resumes: with CancelledError if it was marked, else with the
\* run's outcome.
op_wakeup(M) ==
    [M EXCEPT !.op.state = "done",
              !.op.exc = IF M.op.must_cancel THEN CancelledError
                         ELSE Outcome(M.futs[RunF]),
              !.ready = Tail(@)]

\* ---- App.exec ----
NoApp == [pc |-> "idle", exc |-> NoExc, registered |-> FALSE]

\* App.exec up to the loop running: the registry entry is made, start() is
\* called, run_until_complete adds its callback to the run handle.  If
\* start() raises, the finally clause removes the entry.
exec(M) ==
    LET M1 == start([M EXCEPT !.app.registered = TRUE]) IN
    IF M.futs[RunF].state # "NONE"
    THEN [M1 EXCEPT !.app = [pc |-> "raised", exc |-> RuntimeError, registered |-> FALSE]]
    ELSE [M1 EXCEPT !.app.pc = "running",
                    !.futs[RunF].callbacks = Append(@, Callback("_run_until_complete_cb", RunF))]

exec_resume_no_swallow(M) ==
    LET e == Outcome(M.futs[RunF])
        M1 == [M EXCEPT !.ready = Tail(@)]
    IN IF e = NoExc
       THEN [M1 EXCEPT !.app = [pc |-> "returned", exc |-> NoExc, registered |-> FALSE]]
       ELSE [M1 EXCEPT !.app = [pc |-> "raised", exc |-> e, registered |-> FALSE]]

\* The loop stops because the run is done: run_until_complete returns the
\* run's result or raises its exception, exec() swallows CancelledError and
\* removes the registry entry.
exec_resume(M) ==
    LET e == Outcome(M.futs[RunF])
        M1 == [M EXCEPT !.ready = Tail(@)]
    IN IF e \in {NoExc, CancelledError}
       THEN [M1 EXCEPT !.app = [pc |-> "returned", exc |-> NoExc, registered |-> FALSE]]
       ELSE [M1 EXCEPT !.app = [pc |-> "raised", exc |-> e, registered |-> FALSE]]

\* ---- AsyncExitStack (async_app/utils.py) ----
\* One owner registers entries on a stack, may detach them with pop_all(),
\* and unwinds a stack with close() or by leaving its `async with` scope.
\* The owner issues these operations one after another; while an unwind is
\* suspended in an entry, another task may cancel it (task.cancel(), or the
\* timeout of asyncio.wait_for).  Entries are user code: an entry returns a
\* falsy or a truthy value, raises an error of its own, sets the shared
\* event, or suspends once (on an awaitable of its own or on the event)
\* before it ends; an entry resumed by a cancellation propagates it or
\* handles it.
Stacks == {1, 2}                \* 1: the stack the owner made, 2: the one pop_all() returns
Kinds == {"cm", "callback"}     \* registered by enter_context()/push(), or by callback()
Entries == 1..MaxEntries

BodyError == "BodyError"                        \* an error raised by the body of the scope
EntryError(e) == "EntryError" \o ToString(e)    \* the error entry e raises
Cancelled(e) == "Cancelled" \o ToString(e)      \* the CancelledError thrown into the suspended entry e

Cancellations == {CancelledError} \cup {Cancelled(e) : e \in Entries}
StackExcs == {BodyError} \cup {EntryError(e) : e \in Entries} \cup Cancellations
Triggers == {NoExc, BodyError, CancelledError}  \* the exc_details an unwind starts with

\* No __aexit__ in progress.
NoUnwind == [pc |-> "idle", stack |-> 1, trigger |-> NoExc, frame_exc |-> NoExc,
             received_exc |-> FALSE, exc_details |-> NoExc,
             suppressed_exc |-> FALSE, pending_raise |-> FALSE,
             waits |-> "none", must_cancel |-> FALSE, raised |-> NoExc, returned |-> FALSE]

\* _BaseExitStack.push / callback: append to the deque of stack s.
push(cbs, s, e) == [cbs EXCEPT ![s] = Append(@, e)]

pop_all_copy(cbs) == [cbs EXCEPT ![2] = cbs[1]]

\* _BaseExitStack.pop_all: the new stack takes the deque, the original gets
\* an empty one.
pop_all(cbs) == [cbs EXCEPT ![2] = cbs[1], ![1] = <<>>]

pop_left(cbs, s) == [cb |-> cbs[s][1], rest |-> [cbs EXCEPT ![s] = Tail(@)]]

\* deque.pop() on the deque of stack s: the last entry, and the deques left.
pop(cbs, s) == [cb |-> cbs[s][Len(cbs[s])],
                rest |-> [cbs EXCEPT ![s] = SubSeq(@, 1, Len(@) - 1)]]

EntryResult_pass(kind, ret) == ret

\* What the loop receives from an entry whose callable returned ret:
\* _create_exit_wrapper passes the value on, _create_cb_wrapper drops it.
EntryResult(kind, ret) == IF kind = "cm" THEN ret ELSE FALSE

shutdown_loop_no_exc(s, exc) ==
    [NoUnwind EXCEPT !.pc = "loop", !.stack = s, !.trigger = exc, !.frame_exc = exc,
                     !.received_exc = (exc # NoExc)]

\* _shutdown_loop up to its loop, started by __aexit__(*exc_details) on
\* stack s; sys.exc_info() is the exception the scope is leaving with.
shutdown_loop(s, exc) ==
    [NoUnwind EXCEPT !.pc = "loop", !.stack = s, !.trigger = exc, !.frame_exc = exc,
                     !.received_exc = (exc # NoExc), !.exc_details = exc]

send_keep(U, cb_result) ==
    IF cb_result THEN [U EXCEPT !.suppressed_exc = TRUE] ELSE U

\* The loop receives an entry's result (gen.send).
send(U, cb_result) ==
    IF cb_result
    THEN [U EXCEPT !.suppressed_exc = TRUE, !.pending_raise = FALSE, !.exc_details = NoExc]
    ELSE U

\* _fix_exception_context: ctx with the end of new_exc's chain pointing to old_exc.
RECURSIVE fix_exception_context(_, _, _, _)
fix_exception_context(ctx, new_exc, old_exc, frame_exc) ==
    LET exc_context == ctx[new_exc]
    IN IF exc_context = old_exc THEN ctx
       ELSE IF exc_context = NoExc \/ exc_context = frame_exc
            THEN [ctx EXCEPT ![new_exc] = old_exc]
            ELSE fix_exception_context(ctx, exc_context, old_exc, frame_exc)

\* The loop's `except:` sets the context of new_exc, which was raised
\* with the implicit context `implicit`.
except_context(ctx, U, new_exc, implicit) ==
    fix_exception_context([ctx EXCEPT ![new_exc] = implicit], new_exc, U.exc_details, U.frame_exc)

throw_drop_cancel(U, new_exc) ==
    IF new_exc \in Cancellations THEN U ELSE [U EXCEPT !.pending_raise = TRUE, !.exc_details = new_exc]

throw_keep_pending(U, new_exc) == [U EXCEPT !.pending_raise = TRUE]

\* The loop's `except:` records new_exc as pending (an entry raised, or gen.throw).
throw(U, new_exc) == [U EXCEPT !.pending_raise = TRUE, !.exc_details = new_exc]

shutdown_end_no_raise(U) ==
    [U EXCEPT !.pc = "done", !.returned = (U.received_exc /\ U.suppressed_exc)]

\* The end of _shutdown_loop and of __aexit__: raise the pending exception,
\* or return whether the exception received was suppressed.
shutdown_end(U) ==
    IF U.pending_raise
    THEN [U EXCEPT !.pc = "done", !.raised = U.exc_details]
    ELSE [U EXCEPT !.pc = "done", !.returned = (U.received_exc /\ U.suppressed_exc)]

\* ---- TaskGroup and wait_one (async_app/utils.py) ----
Handles == 1..MaxHandles

\* A future or task handle nobody has created yet.  adds, inserts, removals,
\* key_error, cancel_called and member_at_done record what was done to it.
NoHandle == [state |-> "NONE", outcome |-> "none", callbacks |-> <<>>, cancel_req |-> FALSE,
             cancel_called |-> FALSE, adds |-> 0, inserts |-> 0, removals |-> 0,
             key_error |-> FALSE, member_at_done |-> FALSE]

\* wait_one before it is called.
NoJoint == [pc |-> "idle", fs |-> {}, todo |-> {}, done_q |-> <<>>, outcome |-> "none",
            of |-> 0, first |-> 0]

HandleCallback(cb, h) == [cb |-> cb, h |-> h]

\* asyncio.ensure_future(coro_or_future): a coroutine becomes a new task, a
\* future or task is returned as it is.
handle_ensure_future(G, h) ==
    IF G.handles[h].state = "NONE" THEN [G EXCEPT !.handles[h].state = "PENDING"] ELSE G

\* Future.add_done_callback: a done future schedules the callback at once.
handle_add_done_callback(G, h, cb) ==
    IF G.handles[h].state \in {"FINISHED", "CANCELLED"} THEN [G EXCEPT !.loop = Append(@, HandleCallback(cb, h))]
    ELSE [G EXCEPT !.handles[h].callbacks = Append(@, HandleCallback(cb, h))]

\* Task.cancel(): a pending task is asked to end, a done one is left alone.
handle_cancel(G, h) ==
    IF G.handles[h].state = "PENDING"
    THEN [G EXCEPT !.handles[h].cancel_req = TRUE, !.handles[h].cancel_called = TRUE]
    ELSE [G EXCEPT !.handles[h].cancel_called = TRUE]

\* The handle completes with a result, an error or a cancellation: its
\* callbacks are scheduled in the order in which they were added.
handle_complete(G, h, out) ==
    [G EXCEPT !.handles[h].state = IF out = "cancelled" THEN "CANCELLED" ELSE "FINISHED",
              !.handles[h].outcome = out,
              !.handles[h].cancel_req = FALSE,
              !.handles[h].callbacks = <<>>,
              !.handles[h].member_at_done = h \in G.tasks,
              !.loop = @ \o G.handles[h].callbacks,
              !.joint.first = IF G.joint.pc = "waiting" /\ h \in G.joint.fs /\ @ = 0 THEN h ELSE @]

\* add_task() without the membership test.
add_task_unguarded(G, h) ==
    LET G0 == [handle_ensure_future(G, h) EXCEPT !.handles[h].adds = @ + 1] IN
    handle_add_done_callback([G0 EXCEPT !.tasks = @ \cup {h},
                                        !.handles[h].inserts = IF h \in G0.tasks THEN @ ELSE @ + 1],
                             h, "remove_task")

\* TaskGroup.add_task.
add_task(G, h) ==
    LET G0 == [handle_ensure_future(G, h) EXCEPT !.handles[h].adds = @ + 1] IN
    IF h \notin G0.tasks
    THEN handle_add_done_callback([G0 EXCEPT !.tasks = @ \cup {h}, !.handles[h].inserts = @ + 1],
                                  h, "remove_task")
    ELSE G0

\* remove_task() that empties the group.
remove_task_all(G, h) ==
    [G EXCEPT !.tasks = {}, !.handles[h].removals = @ + 1]

\* TaskGroup.remove_task, the done callback of member h: set.remove raises
\* KeyError when the handle is not in the set.
remove_task(G, h) ==
    LET G1 == [G EXCEPT !.handles[h].callbacks = SelectSeq(@, LAMBDA c : c.cb # "remove_task")] IN
    IF h \in G1.tasks
    THEN [G1 EXCEPT !.tasks = @ \ {h}, !.handles[h].removals = @ + 1]
    ELSE [G1 EXCEPT !.handles[h].key_error = TRUE]

\* `for t in self._tasks: t.cancel()`, members i..MaxHandles.
RECURSIVE cancel_members(_, _)
cancel_members(G, i) ==
    IF i > MaxHandles THEN G
    ELSE cancel_members(IF i \in G.tasks THEN handle_cancel(G, i) ELSE G, i + 1)

\* asyncio.wait over the handles of fs, i..MaxHandles: _on_completion is
\* added to each of them.
RECURSIVE wait_members(_, _, _)
wait_members(G, fs, i) ==
    IF i > MaxHandles THEN G
    ELSE wait_members(IF i \in fs THEN handle_add_done_callback(G, i, "_on_completion") ELSE G,
                      fs, i + 1)

\* TaskGroup.__aexit__ up to its suspension in asyncio.wait, which works on
\* a copy of the set.
group_aexit(G) ==
    IF G.tasks = {} THEN [G EXCEPT !.group_exit.pc = "exited"]
    ELSE [wait_members(cancel_members(G, 1), G.tasks, 1) EXCEPT
            !.group_exit = [pc |-> "waiting", fs |-> G.tasks, counter |-> Cardinality(G.tasks),
                            dropped |-> {}, raised |-> "none"]]

\* _on_completion of a wait that returns at the first completion.
wait_on_completion_first(G, h) ==
    [G EXCEPT !.group_exit.counter = @ - 1,
              !.loop = IF G.group_exit.counter = Cardinality(G.group_exit.fs)
                       THEN Append(@, HandleCallback("aexit_wakeup", h)) ELSE @]

\* asyncio.wait, return_when=ALL_COMPLETED: _on_completion of handle h wakes
\* the waiting __aexit__ when it was the last one.
wait_on_completion(G, h) ==
    [G EXCEPT !.group_exit.counter = @ - 1,
              !.loop = IF G.group_exit.counter = 1
                       THEN Append(@, HandleCallback("aexit_wakeup", h)) ELSE @]

\* __aexit__ resumed from asyncio.wait, which returns the sets of done and
\* pending handles and none of their outcomes: `self._tasks = set()`.
group_aexit_resume(G) ==
    [G EXCEPT !.group_exit.pc = "exited",
              !.group_exit.raised = "none",
              !.group_exit.dropped = {h \in G.tasks : G.handles[h].state = "PENDING"},
              !.tasks = {}]

\* `for f in todo: f.add_done_callback(_on_completion)` of as_completed.
RECURSIVE as_completed(_, _, _)
as_completed(G, fs, i) ==
    IF i > MaxHandles THEN G
    ELSE as_completed(IF i \in fs THEN handle_add_done_callback(G, i, "as_completed") ELSE G,
                      fs, i + 1)

\* wait_one(*fs) up to its suspension in the queue of completed handles.
wait_one(G, fs) ==
    [as_completed(G, fs, 1) EXCEPT !.joint = [NoJoint EXCEPT !.pc = "waiting", !.fs = fs, !.todo = fs]]

\* _on_completion of as_completed: the handle is put into the queue; the
\* first put wakes the waiting wait_one.
as_completed_on_completion(G, h) ==
    IF G.joint.todo = {} THEN G
    ELSE [G EXCEPT !.joint.todo = @ \ {h},
                   !.joint.done_q = Append(@, h),
                   !.loop = IF G.joint.pc = "waiting" /\ G.joint.done_q = <<>>
                            THEN Append(@, HandleCallback("wait_one_wakeup", h)) ELSE @]

\* wait_one that ends the handles it did not return, as a wait with a
\* timeout does.
wait_one_resume_cancelling(G) ==
    LET f == Head(G.joint.done_q)
        out == G.handles[f].outcome
    IN [G EXCEPT !.joint.pc = IF out = "result" THEN "returned" ELSE "raised",
                 !.joint.outcome = out,
                 !.joint.of = f,
                 !.handles = [h \in Handles |->
                                IF h # f /\ h \in G.joint.fs /\ G.handles[h].state = "PENDING"
                                THEN [@[h] EXCEPT !.cancel_req = TRUE] ELSE @[h]]]

\* wait_one resumed: `return f.result()` of the first handle in the queue.
wait_one_resume(G) ==
    LET f == Head(G.joint.done_q)
        out == G.handles[f].outcome
    IN [G EXCEPT !.joint.pc = IF out = "result" THEN "returned" ELSE "raised",
                 !.joint.outcome = out,
                 !.joint.of = f]

\* ---- the state machine ----
Init ==
    /\ futs = [t \in TaskNames |-> NoFut]
    /\ run_pc = "unstarted"
    /\ exc_info = NoExc
    /\ should_stop = FALSE
    /\ is_initialized = FALSE
    /\ is_aborted = FALSE
    /\ ready = <<>>
    /\ awaiter = [a \in Awaiters |-> [state |-> "idle", exc |-> NoExc]]
    /\ calls = [t \in TaskNames |-> 0]
    /\ cleanup_args = <<>>
    /\ start_calls = 0
    /\ start_errors = 0
    /\ suspends = [p \in Phases |-> 0]
    /\ scope = [state |-> "out", exc |-> NoExc]
    /\ hist = [stop_at |-> "never", cancel_after_initialize |-> FALSE,
               cancel_in_main |-> FALSE, cancel_after_main |-> FALSE,
               cancel_in_cleanup |-> FALSE, abort_called |-> FALSE, stop_cancels |-> 0]
    /\ op = NoOp
    /\ app = NoApp
    /\ handles = [h \in Handles |-> NoHandle]
    /\ tasks = {}
    /\ loop = <<>>
    /\ observer = [state |-> "idle", on |-> 0, members |-> {}, saw |-> {}]
    /\ group_exit = [pc |-> "in", fs |-> {}, counter |-> 0, dropped |-> {}, raised |-> "none"]
    /\ joint = NoJoint
    /\ exit_callbacks = [s \in Stacks |-> <<>>]
    /\ registered = <<>>
    /\ unwind = NoUnwind
    /\ entry_log = <<>>
    /\ context = [x \in StackExcs |-> NoExc]
    /\ event = FALSE
    /\ ops = [unwinds |-> 0, at_begin |-> <<>>, popped |-> FALSE, transferred |-> <<>>,
              invoked |-> [e \in Entries |-> 0]]

\* -- calls made from outside the Lifecycle, between two callbacks of the loop --
Start ==
    /\ start_calls < MaxStartCalls
    /\ Becomes(start(Cur))

Stop == Becomes(stop(Cur))

Abort == Becomes(abort(Cur))

\* Direct cancellation of the run handle (r._run_f.cancel()).
CancelRun ==
    /\ futs[RunF].state = "PENDING"
    /\ Becomes(CancelRunF(Cur))

\* The awaiting operations are interchangeable: they are numbered in the
\* order in which they begin to await.
Await(a) ==
    /\ awaiter[a].state = "idle"
    /\ \A b \in Awaiters : b < a => awaiter[b].state # "idle"
    /\ Becomes(await(Cur, a))

\* The awaitable a suspended phase body waits for completes.
ExtDone(p) ==
    /\ futs[p].state = "PENDING"
    /\ futs[p].fut_waiter = "ext_pending"
    /\ futs' = [futs EXCEPT ![p].fut_waiter = "ext_done"]
    /\ ready' = Append(ready, Callback("_wakeup", p))
    /\ UNCHANGED <<run_pc, exc_info, should_stop, is_initialized, is_aborted, awaiter, calls,
                   cleanup_args, start_calls, start_errors, suspends, scope, hist, op, app>>
    /\ UNCHANGED <<stack_vars, group_vars>>

\* -- callbacks run by the loop, in FIFO order --
Next0(cb) == ready # <<>> /\ Head(ready).cb = cb

\* Task._step / Task._wakeup of the run task.
StepRun ==
    /\ ready # <<>>
    /\ Head(ready).cb \in {"_step", "_wakeup"}
    /\ Head(ready).task = RunF
    /\ Becomes(run(BeginStep(Cur, RunF), StepExc(Cur, RunF)))

\* Task._step / Task._wakeup of a phase task.
StepPhase(p) ==
    /\ ready # <<>>
    /\ Head(ready).cb \in {"_step", "_wakeup"}
    /\ Head(ready).task = p
    /\ \E catch \in BOOLEAN, act \in {"none", "stop", "abort"}, sup \in BOOLEAN,
          out \in {"return", "raise", "cancel", "await"} :
          /\ catch => (StepExc(Cur, p) # NoExc /\ futs[p].entered)
          /\ (StepExc(Cur, p) # NoExc /\ ~catch) => (act = "none" /\ ~sup /\ out = "return")
          /\ sup => p = InitializeF
          /\ out = "await" => suspends[InitializeF] + suspends[MainF] + suspends[CleanupF] < MaxSuspends
          /\ Becomes(body(BeginStep(Cur, p), p, StepExc(Cur, p), catch, act, sup, out))

OnRunDone ==
    /\ Next0("on_run_done")
    /\ Becomes(on_run_done([Cur EXCEPT !.ready = Tail(@)]))

\* Runnable.on_initialize_done, on_main_done, on_cleanup_done: assertions only.
OnPhaseDone(p, cb) ==
    /\ Next0(cb)
    /\ Head(ready).task = p
    /\ ready' = Tail(ready)
    /\ UNCHANGED <<futs, run_pc, exc_info, should_stop, is_initialized, is_aborted, awaiter, calls,
                   cleanup_args, start_calls, start_errors, suspends, scope, hist, op, app>>
    /\ UNCHANGED <<stack_vars, group_vars>>

OnInitializeDone == OnPhaseDone(InitializeF, "on_initialize_done")

OnMainDone == OnPhaseDone(MainF, "on_main_done")

OnCleanupDone == OnPhaseDone(CleanupF, "on_cleanup_done")

\* The awaiting operation resumes with the run's outcome.
AwaiterWakeup(a) ==
    /\ Next0("awaiter_wakeup")
    /\ Head(ready).task = a
    /\ awaiter' = [awaiter EXCEPT ![a] = [state |-> "done", exc |-> Outcome(futs[RunF])]]
    /\ ready' = Tail(ready)
    /\ UNCHANGED <<futs, run_pc, exc_info, should_stop, is_initialized, is_aborted, calls,
                   cleanup_args, start_calls, start_errors, suspends, scope, hist, op, app>>
    /\ UNCHANGED <<stack_vars, group_vars>>

\* -- the scope: `async with lifecycle: ...` in some task of the loop --
Enter ==
    /\ scope.state = "out"
    /\ Becomes(aenter(Cur))

\* The block of the scope ends, between two callbacks of the loop.
Exit ==
    /\ scope.state = "in"
    /\ Becomes(aexit(Cur))

\* __aexit__ resumes from `await self`.
ScopeWakeup ==
    /\ Next0("scope_wakeup")
    /\ Becomes(ScopeResume([Cur EXCEPT !.ready = Tail(@)], Outcome(futs[RunF])))

Next ==
    \/ Start
    \/ Stop
    \/ Abort
    \/ CancelRun
    \/ \E a \in Awaiters : Await(a)
    \/ \E p \in Phases : ExtDone(p)
    \/ StepRun
    \/ \E p \in Phases : StepPhase(p)
    \/ OnRunDone
    \/ OnInitializeDone
    \/ OnMainDone
    \/ OnCleanupDone
    \/ \E a \in Awaiters : AwaiterWakeup(a)

Spec == Init /\ [][Next]_vars

\* The Lifecycle driven by a scope alone: entry, the phase bodies (which may
\* call stop() or abort()), exit.
NextScope ==
    \/ Enter
    \/ Exit
    \/ ScopeWakeup
    \/ \E p \in Phases : ExtDone(p)
    \/ StepRun
    \/ \E p \in Phases : StepPhase(p)
    \/ OnRunDone
    \/ OnInitializeDone
    \/ OnMainDone
    \/ OnCleanupDone

SpecScope == Init /\ [][NextScope]_vars

\* -- a task awaiting the Lifecycle, cancelled by another task --
OpAwait ==
    /\ op.state = "idle"
    /\ Becomes(op_await(Cur))

OpCancel ==
    /\ op.state = "waiting"
    /\ Becomes(op_cancel(Cur))

OpWakeup ==
    /\ Next0("op_wakeup")
    /\ Becomes(op_wakeup(Cur))

\* The Lifecycle, started once, awaited by tasks of which one may be
\* cancelled; the phase bodies may call stop() or abort().
NextAwait ==
    \/ start_calls = 0 /\ Start
    \/ OpAwait
    \/ OpCancel
    \/ OpWakeup
    \/ \E a \in Awaiters : Await(a)
    \/ \E a \in Awaiters : AwaiterWakeup(a)
    \/ \E p \in Phases : ExtDone(p)
    \/ StepRun
    \/ \E p \in Phases : StepPhase(p)
    \/ OnRunDone
    \/ OnInitializeDone
    \/ OnMainDone
    \/ OnCleanupDone

SpecAwait == Init /\ [][NextAwait]_vars

\* -- App.exec: the loop runs only inside exec() --
Exec ==
    /\ app.pc = "idle"
    /\ Becomes(exec(Cur))

ExecResume ==
    /\ Next0("_run_until_complete_cb")
    /\ Becomes(exec_resume(Cur))

NextExec ==
    \/ app.pc = "idle" /\ Start
    \/ app.pc # "raised" /\ Stop
    \/ Exec
    \/ ExecResume
    \/ app.pc = "running" /\ \E p \in Phases : ExtDone(p)
    \/ app.pc = "running" /\ StepRun
    \/ app.pc = "running" /\ \E p \in Phases : StepPhase(p)
    \/ app.pc = "running" /\ OnRunDone
    \/ app.pc = "running" /\ OnInitializeDone
    \/ app.pc = "running" /\ OnMainDone
    \/ app.pc = "running" /\ OnCleanupDone

SpecExec == Init /\ [][NextExec]_vars

\* -- the Lifecycle whose phases end when they receive a cancellation --
\* A phase step as StepPhase, for bodies that do not wait again once a
\* CancelledError was thrown into them.
StepPhaseEnding(p) ==
    /\ ready # <<>>
    /\ Head(ready).cb \in {"_step", "_wakeup"}
    /\ Head(ready).task = p
    /\ \E catch \in BOOLEAN, act \in {"none", "stop", "abort"}, sup \in BOOLEAN,
          out \in {"return", "raise", "cancel", "await"} :
          /\ catch => (StepExc(Cur, p) # NoExc /\ futs[p].entered)
          /\ (StepExc(Cur, p) # NoExc /\ ~catch) => (act = "none" /\ ~sup /\ out = "return")
          /\ sup => p = InitializeF
          /\ out = "await" => suspends[InitializeF] + suspends[MainF] + suspends[CleanupF] < MaxSuspends
          /\ StepExc(Cur, p) = CancelledError => out # "await"
          /\ Becomes(body(BeginStep(Cur, p), p, StepExc(Cur, p), catch, act, sup, out))

\* The callbacks the loop has in its queue: it runs them one after another.
LoopStep ==
    \/ StepRun
    \/ \E p \in Phases : StepPhaseEnding(p)
    \/ OnRunDone
    \/ OnInitializeDone
    \/ OnMainDone
    \/ OnCleanupDone

NextLive ==
    \/ start_calls = 0 /\ Start
    \/ Stop
    \/ \E p \in Phases : ExtDone(p)
    \/ LoopStep

\* The loop keeps running its queue; whether an awaitable a phase waits for
\* ever completes is not up to the loop.
SpecLive == Init /\ [][NextLive]_vars /\ WF_vars(LoopStep)

\* -- the exit stack: calls of its owner, and the steps of one __aexit__ --
Unwinding == unwind.pc \in {"loop", "awaiting"}

\* The entries whose invocation has ended, and the one in progress.
Finished == IF unwind.pc = "awaiting" THEN SubSeq(entry_log, 1, Len(entry_log) - 1) ELSE entry_log

Running == entry_log[Len(entry_log)]

\* stack.enter_context(cm), stack.push(f) or stack.callback(f) on the
\* owner's stack.
Push(kind) ==
    /\ ~Unwinding
    /\ Len(registered) < MaxEntries
    /\ registered' = Append(registered, kind)
    /\ exit_callbacks' = push(exit_callbacks, 1, Len(registered) + 1)
    /\ UNCHANGED <<unwind, entry_log, context, event, ops>>
    /\ UNCHANGED <<lifecycle_vars, group_vars>>

\* stack.pop_all().
PopAll ==
    /\ ~Unwinding
    /\ ~ops.popped
    /\ exit_callbacks' = pop_all(exit_callbacks)
    /\ ops' = [ops EXCEPT !.popped = TRUE, !.transferred = exit_callbacks[1]]
    /\ UNCHANGED <<registered, unwind, entry_log, context, event>>
    /\ UNCHANGED <<lifecycle_vars, group_vars>>

\* close() (exc = NoExc), or the scope of stack s is left: cleanly, with an
\* error of its body, or because the body was cancelled.
BeginUnwind(s, exc) ==
    /\ ~Unwinding
    /\ ops.unwinds < MaxUnwinds
    /\ s = 1 \/ ops.popped
    /\ unwind' = shutdown_loop(s, exc)
    /\ entry_log' = <<>>
    /\ context' = [x \in StackExcs |-> NoExc]
    /\ ops' = [ops EXCEPT !.unwinds = @ + 1, !.at_begin = exit_callbacks[s]]
    /\ UNCHANGED <<exit_callbacks, registered, event>>
    /\ UNCHANGED <<lifecycle_vars, group_vars>>

\* The entry `it` ends by returning ret.
EntryReturns(it, ret) ==
    LET cb_result == EntryResult(it.kind, ret)
    IN /\ unwind' = [send(unwind, cb_result) EXCEPT !.pc = "loop", !.waits = "none",
                                                    !.must_cancel = FALSE]
       /\ entry_log' = Append(Finished, [it EXCEPT !.did = IF cb_result THEN "suppress" ELSE "return",
                                                   !.ret = ret])
       /\ context' = context

\* The entry `it` ends by raising exc.
EntryRaises(it, exc) ==
    \E implicit \in {NoExc, unwind.frame_exc, unwind.exc_details} :
        /\ context' = except_context(context, unwind, exc, implicit)
        /\ unwind' = [throw(unwind, exc) EXCEPT !.pc = "loop", !.waits = "none",
                                                !.must_cancel = FALSE]
        /\ entry_log' = Append(Finished, [it EXCEPT !.did = "raise", !.exc = exc])

\* The entry `it` suspends on an awaitable.
EntrySuspends(it, on) ==
    /\ unwind' = [unwind EXCEPT !.pc = "awaiting", !.waits = on]
    /\ entry_log' = Append(Finished, it)
    /\ context' = context

\* One turn of the loop: pop the last entry and invoke it with exc_details,
\* up to the entry's end or its suspension.
Invoke(b) ==
    /\ unwind.pc = "loop"
    /\ exit_callbacks[unwind.stack] # <<>>
    /\ LET cb == pop(exit_callbacks, unwind.stack).cb
           it == [e |-> cb, kind |-> registered[cb],
                  got |-> unwind.exc_details, did |-> "running", ret |-> FALSE, exc |-> NoExc,
                  cancelled |-> FALSE]
       IN /\ exit_callbacks' = pop(exit_callbacks, unwind.stack).rest
          /\ CASE b = "return" -> EntryReturns(it, FALSE) /\ event' = event
               [] b = "suppress" -> EntryReturns(it, TRUE) /\ event' = event
               [] b = "raise" -> EntryRaises(it, EntryError(cb)) /\ event' = event
               [] b = "set" -> EntryReturns(it, FALSE) /\ event' = TRUE
               [] b = "await" -> EntrySuspends(it, "ext") /\ event' = event
               [] b = "wait" -> /\ IF event THEN EntryReturns(it, FALSE)
                                   ELSE EntrySuspends(it, "event")
                                /\ event' = event
          /\ ops' = [ops EXCEPT !.invoked[cb] = @ + 1]
    /\ UNCHANGED registered
    /\ UNCHANGED <<lifecycle_vars, group_vars>>

InvokeBehaviours == {"return", "suppress", "raise", "set", "await", "wait"}

\* task.cancel() on the task that runs the unwind, suspended in an entry.
Cancel ==
    /\ unwind.pc = "awaiting"
    /\ ~unwind.must_cancel
    /\ unwind' = [unwind EXCEPT !.must_cancel = TRUE]
    /\ entry_log' = Append(Finished, [Running EXCEPT !.cancelled = TRUE])
    /\ UNCHANGED <<exit_callbacks, registered, context, event, ops>>
    /\ UNCHANGED <<lifecycle_vars, group_vars>>

Resume_eager(b) ==
    /\ unwind.pc = "awaiting"
    /\ IF unwind.must_cancel
       THEN CASE b = "propagate" -> EntryRaises(Running, Cancelled(Running.e))
              [] b = "return" -> EntryReturns(Running, FALSE)
              [] b = "suppress" -> EntryReturns(Running, TRUE)
              [] b = "raise" -> EntryRaises(Running, EntryError(Running.e))
       ELSE CASE b = "return" -> EntryReturns(Running, FALSE)
              [] b = "suppress" -> EntryReturns(Running, TRUE)
              [] b = "raise" -> EntryRaises(Running, EntryError(Running.e))
              [] b = "propagate" -> FALSE
    /\ UNCHANGED <<exit_callbacks, registered, event, ops>>
    /\ UNCHANGED <<lifecycle_vars, group_vars>>

\* The suspended entry is resumed: with CancelledError if the task was
\* cancelled, else once what it waits for is there.
Resume(b) ==
    /\ unwind.pc = "awaiting"
    /\ IF unwind.must_cancel
       THEN CASE b = "propagate" -> EntryRaises(Running, Cancelled(Running.e))
              [] b = "return" -> EntryReturns(Running, FALSE)
              [] b = "suppress" -> EntryReturns(Running, TRUE)
              [] b = "raise" -> EntryRaises(Running, EntryError(Running.e))
       ELSE /\ unwind.waits = "ext" \/ event
            /\ CASE b = "return" -> EntryReturns(Running, FALSE)
                 [] b = "suppress" -> EntryReturns(Running, TRUE)
                 [] b = "raise" -> EntryRaises(Running, EntryError(Running.e))
                 [] b = "propagate" -> FALSE
    /\ UNCHANGED <<exit_callbacks, registered, event, ops>>
    /\ UNCHANGED <<lifecycle_vars, group_vars>>

ResumeBehaviours == {"propagate", "return", "suppress", "raise"}

Finish_early ==
    /\ unwind.pc = "loop"
    /\ Len(exit_callbacks[unwind.stack]) <= 1
    /\ unwind' = shutdown_end(unwind)
    /\ UNCHANGED <<exit_callbacks, registered, entry_log, context, event, ops>>
    /\ UNCHANGED <<lifecycle_vars, group_vars>>

\* The deque is empty: _shutdown_loop and __aexit__ end.
Finish ==
    /\ unwind.pc = "loop"
    /\ exit_callbacks[unwind.stack] = <<>>
    /\ unwind' = shutdown_end(unwind)
    /\ UNCHANGED <<exit_callbacks, registered, entry_log, context, event, ops>>
    /\ UNCHANGED <<lifecycle_vars, group_vars>>

NextStack ==
    \/ \E kind \in Kinds : Push(kind)
    \/ PopAll
    \/ \E s \in Stacks, exc \in Triggers : BeginUnwind(s, exc)
    \/ \E b \in InvokeBehaviours : Invoke(b)
    \/ Cancel
    \/ \E b \in ResumeBehaviours : Resume(b)
    \/ Finish

SpecStack == Init /\ [][NextStack]_vars

\* -- the TaskGroup: calls of the operations that use it, handle
\* completions, and the callbacks the loop runs in FIFO order --
Grp == [handles |-> handles, tasks |-> tasks, loop |-> loop, observer |-> observer,
        group_exit |-> group_exit, joint |-> joint]

GroupBecomes(G) ==
    /\ handles' = G.handles
    /\ tasks' = G.tasks
    /\ loop' = G.loop
    /\ observer' = G.observer
    /\ group_exit' = G.group_exit
    /\ joint' = G.joint
    /\ UNCHANGED <<lifecycle_vars, stack_vars>>

\* The add_task() calls made so far with the handles i..MaxHandles.
RECURSIVE TotalAdds(_)
TotalAdds(i) == IF i > MaxHandles THEN 0 ELSE handles[i].adds + TotalAdds(i + 1)

\* Somebody creates a task outside the group; handles are numbered in the
\* order of their creation.
CreateHandle(h) ==
    /\ handles[h].state = "NONE"
    /\ \A g \in Handles : g < h => handles[g].state # "NONE"
    /\ GroupBecomes(handle_ensure_future(Grp, h))

\* tasks.add_task(h) by an operation inside the scope or sharing the group.
AddTask(h) ==
    /\ group_exit.pc # "exited"
    /\ TotalAdds(1) < MaxAdds
    /\ \A g \in Handles : g < h => handles[g].state # "NONE"
    /\ GroupBecomes(add_task(Grp, h))

\* h.cancel() by its owner, h a task.
CancelHandle(h) ==
    /\ handles[h].state = "PENDING"
    /\ ~handles[h].cancel_called
    /\ GroupBecomes(handle_cancel(Grp, h))

\* The handle completes: its coroutine returns, raises an error or raises
\* CancelledError (a requested cancellation it lets through, or one of its
\* own); a plain future is resolved or cancelled by its owner.
CompleteHandle(h) ==
    /\ handles[h].state = "PENDING"
    /\ \E out \in {"result", "error", "cancelled"} :
          GroupBecomes(handle_complete(Grp, h, out))

\* The handle's coroutine catches the CancelledError and goes on.
ResistCancel(h) ==
    /\ handles[h].state = "PENDING"
    /\ handles[h].cancel_req
    /\ GroupBecomes([Grp EXCEPT !.handles[h].cancel_req = FALSE])

RemoveTask ==
    /\ loop # <<>>
    /\ Head(loop).cb = "remove_task"
    /\ GroupBecomes(remove_task([Grp EXCEPT !.loop = Tail(@)], Head(loop).h))

\* `await h` by an operation, h pending: it resumes from a callback of h.
ObserverAwait(h) ==
    /\ observer.state = "idle"
    /\ handles[h].state = "PENDING"
    /\ GroupBecomes([Grp EXCEPT
          !.observer = [state |-> "waiting", on |-> h, members |-> tasks, saw |-> {}],
          !.handles[h].callbacks = Append(@, HandleCallback("observer_wakeup", h))])

\* The operation resumes and looks at the group (`len(tasks)`, `t in tasks`).
ObserverWakeup ==
    /\ loop # <<>>
    /\ Head(loop).cb = "observer_wakeup"
    /\ GroupBecomes([Grp EXCEPT !.loop = Tail(@), !.observer.state = "resumed",
                                !.observer.saw = tasks])

\* The block of `async with TaskGroup() as tasks` ends.
GroupExit ==
    /\ group_exit.pc = "in"
    /\ GroupBecomes(group_aexit(Grp))

OnCompletion ==
    /\ loop # <<>>
    /\ Head(loop).cb = "_on_completion"
    /\ GroupBecomes(wait_on_completion([Grp EXCEPT !.loop = Tail(@)], Head(loop).h))

GroupExitResume ==
    /\ loop # <<>>
    /\ Head(loop).cb = "aexit_wakeup"
    /\ GroupBecomes(group_aexit_resume([Grp EXCEPT !.loop = Tail(@)]))

WaitOne ==
    /\ joint.pc = "idle"
    /\ \E fs \in SUBSET Handles :
          /\ fs # {}
          /\ \A h \in fs : handles[h].state = "PENDING"
          /\ GroupBecomes(wait_one(Grp, fs))

AsCompletedOnCompletion ==
    /\ loop # <<>>
    /\ Head(loop).cb = "as_completed"
    /\ GroupBecomes(as_completed_on_completion([Grp EXCEPT !.loop = Tail(@)], Head(loop).h))

WaitOneResume ==
    /\ loop # <<>>
    /\ Head(loop).cb = "wait_one_wakeup"
    /\ GroupBecomes(wait_one_resume([Grp EXCEPT !.loop = Tail(@)]))

\* The group inside its scope: members are added, complete and are removed,
\* and an operation awaits one of the handles.
NextGroup ==
    \/ \E h \in Handles : CreateHandle(h)
    \/ \E h \in Handles : AddTask(h)
    \/ \E h \in Handles : CompleteHandle(h)
    \/ \E h \in Handles : ObserverAwait(h)
    \/ RemoveTask
    \/ ObserverWakeup

SpecGroup == Init /\ [][NextGroup]_vars

\* The group and the end of its scope; other operations go on adding
\* handles until __aexit__ has returned.
NextGroupExit ==
    \/ \E h \in Handles : CreateHandle(h)
    \/ \E h \in Handles : AddTask(h)
    \/ \E h \in Handles : CompleteHandle(h)
    \/ \E h \in Handles : ResistCancel(h)
    \/ RemoveTask
    \/ GroupExit
    \/ OnCompletion
    \/ GroupExitResume

SpecGroupExit == Init /\ [][NextGroupExit]_vars

\* wait_one over pending handles.
NextWaitOne ==
    \/ \E h \in Handles : CreateHandle(h)
    \/ \E h \in Handles : CancelHandle(h)
    \/ \E h \in Handles : CompleteHandle(h)
    \/ WaitOne
    \/ AsCompletedOnCompletion
    \/ WaitOneResume

SpecWaitOne == Init /\ [][NextWaitOne]_vars

\* What the caller of the finished unwind sees: the exception __aexit__
\* raised; nothing if it returned true; else the exception the scope was
\* left with (`async with` re-raises it).
Surfaced ==
    IF unwind.raised # NoExc THEN unwind.raised
    ELSE IF unwind.returned THEN NoExc ELSE unwind.trigger

\* ---- properties ----
\* Runnable.is_started, is_alive, is_done.
is_started == futs[RunF].state # "NONE"

is_alive == is_started /\ ~done(futs[RunF])

is_done == is_started /\ done(futs[RunF])

\* The run is done and its completion observer has run: the final state.
Settled == is_done /\ \A i \in 1..Len(ready) : ready[i].cb # "on_run_done"

\* Every operation that awaited the Lifecycle to the end received e.
AwaitersGot(e) == \A a \in Awaiters : awaiter[a].state = "done" => awaiter[a].exc = e

SomeAwaiterGot(e) == \E a \in Awaiters : awaiter[a].state = "done" /\ awaiter[a].exc = e

Returned(f) == f.state = "FINISHED" /\ f.exc = NoExc

RaisedError(f, e) == f.state = "FINISHED" /\ f.exc = e

NeverInvoked(p) == calls[p] = 0 /\ futs[p].state = "NONE"

\* C1: a start() made after an earlier start() raises and schedules nothing;
\* the run handle stays the one of the first start(), so at most one run exists.
C1_SecondStartRaises ==
    /\ [](/\ calls[RunF] <= 1
          /\ start_calls >= 1 => (calls[RunF] = 1 /\ start_errors = start_calls - 1))
    /\ [][(start_calls' > start_calls /\ start_calls >= 1)
            => (/\ start_errors' = start_errors + 1
                /\ UNCHANGED <<futs, run_pc, ready, calls, should_stop, is_aborted>>)]_vars

C1_Witness == start_calls = 2 /\ start_errors = 1 /\ calls[RunF] = 1 /\ Settled

\* C2: after stop() or abort() before start(), start() schedules the run and
\* cancels it at once: no phase is ever invoked, the run ends cancelled and
\* awaiters receive the cancellation.
C2_StopBeforeStart ==
    (hist.stop_at = "not_started" /\ start_calls >= 1) =>
        /\ is_started
        /\ \A p \in Phases : NeverInvoked(p)
        /\ ~futs[RunF].entered
        /\ is_alive => (futs[RunF].must_cancel /\ run_pc = "unstarted")
        /\ is_done => cancelled(futs[RunF])
        /\ AwaitersGot(CancelledError)

C2_Witness ==
    /\ hist.stop_at = "not_started"
    /\ Settled
    /\ cancelled(futs[RunF])
    /\ SomeAwaiterGot(CancelledError)

\* C3: the phases are strictly sequential: main is created only after
\* initialize has returned, cleanup only after main is done, and at most one
\* phase is in progress at any time.
C3_PhasesSequential ==
    /\ futs[MainF].state # "NONE" => Returned(futs[InitializeF])
    /\ futs[CleanupF].state # "NONE" => done(futs[MainF])
    /\ Cardinality({p \in Phases : futs[p].state = "PENDING"}) <= 1

C3_Witness ==
    /\ futs[CleanupF].state = "PENDING"
    /\ futs[CleanupF].fut_waiter = "ext_pending"
    /\ cancelled(futs[MainF])

\* C4: initialize, main and cleanup are each invoked at most once and each
\* phase handle is created at most once, whatever start, stop, abort and
\* cancellation do.
C4_PhasesOnce ==
    /\ [](\A p \in Phases : calls[p] <= 1 /\ (calls[p] = 1 <=> futs[p].state # "NONE"))
    /\ [][\A p \in Phases : futs[p].state # "NONE" =>
            (calls'[p] = calls[p] /\ futs'[p].state # "NONE")]_vars

C4_Witness ==
    /\ \A p \in Phases : calls[p] = 1
    /\ Settled
    /\ hist.cancel_in_main
    /\ start_calls = 2

\* C5 as stated: if main raises, cleanup is invoked once with that error and,
\* after cleanup returns, awaiters receive it and the Lifecycle ends aborted
\* with should_stop set.
C5_Original ==
    (Settled /\ RaisedError(futs[MainF], "MainError")) =>
        /\ cleanup_args = <<"MainError">>
        /\ Returned(futs[CleanupF]) =>
              /\ RaisedError(futs[RunF], "MainError")
              /\ AwaitersGot("MainError")
              /\ is_aborted
              /\ should_stop

\* C5 amended: if main raises, cleanup is invoked exactly once and should_stop
\* ends true; when no cancel request reaches the run after main has raised,
\* cleanup receives that error and, after cleanup returns, awaiters receive it
\* and is_aborted is true.
C5_MainRaises ==
    (Settled /\ RaisedError(futs[MainF], "MainError")) =>
        /\ calls[CleanupF] = 1
        /\ Len(cleanup_args) = 1
        /\ should_stop
        /\ ~hist.cancel_after_main =>
              /\ cleanup_args = <<"MainError">>
              /\ Returned(futs[CleanupF]) =>
                    /\ RaisedError(futs[RunF], "MainError")
                    /\ AwaitersGot("MainError")
                    /\ is_aborted

C5_Witness ==
    /\ Settled
    /\ RaisedError(futs[MainF], "MainError")
    /\ ~hist.cancel_after_main
    /\ Returned(futs[CleanupF])
    /\ SomeAwaiterGot("MainError")
    /\ is_aborted

\* C6 as stated: if initialize raises, the run propagates that error to
\* awaiters, main and cleanup are never invoked, and the Lifecycle ends with
\* is_aborted and should_stop true and is_initialized false.
C6_Original ==
    (Settled /\ RaisedError(futs[InitializeF], "InitializeError")) =>
        /\ RaisedError(futs[RunF], "InitializeError")
        /\ AwaitersGot("InitializeError")
        /\ NeverInvoked(MainF)
        /\ NeverInvoked(CleanupF)
        /\ is_aborted
        /\ should_stop
        /\ ~is_initialized

\* C6 amended: if initialize raises, main and cleanup are never invoked and
\* should_stop ends true; when no cancel request reaches the run between the
\* failure and the resumption of run(), the run ends with that error, awaiters
\* receive it and is_aborted ends true.  is_initialized stays as the body left it.
C6_InitializeRaises ==
    RaisedError(futs[InitializeF], "InitializeError") =>
        /\ NeverInvoked(MainF)
        /\ NeverInvoked(CleanupF)
        /\ run_pc \in {"await_initialize", "finished"}
        /\ Settled =>
              /\ should_stop
              /\ ~hist.cancel_after_initialize =>
                    /\ RaisedError(futs[RunF], "InitializeError")
                    /\ AwaitersGot("InitializeError")
                    /\ is_aborted

C6_Witness ==
    /\ Settled
    /\ RaisedError(futs[InitializeF], "InitializeError")
    /\ RaisedError(futs[RunF], "InitializeError")
    /\ SomeAwaiterGot("InitializeError")
    /\ is_initialized
    /\ is_aborted

\* initialize returned without the base step and stop()/abort() never took
\* effect while the run was pending.
InitializeOmitsSuper ==
    /\ Returned(futs[InitializeF])
    /\ ~is_initialized
    /\ hist.stop_at \in {"never", "finished"}

\* C7 as stated: if an overridden initialize completes with neither
\* is_initialized nor should_stop set, awaiting raises the contract violation,
\* main and cleanup are never invoked and the Lifecycle ends done and aborted.
C7_Original ==
    InitializeOmitsSuper =>
        /\ NeverInvoked(MainF)
        /\ NeverInvoked(CleanupF)
        /\ Settled =>
              /\ RaisedError(futs[RunF], NotImplementedError)
              /\ AwaitersGot(NotImplementedError)
              /\ is_aborted

\* C7 amended: the same, provided the run handle is not cancelled between the
\* completion of initialize and the resumption of run(); main and cleanup are
\* never invoked in either case.
C7_ContractViolation ==
    InitializeOmitsSuper =>
        /\ NeverInvoked(MainF)
        /\ NeverInvoked(CleanupF)
        /\ (Settled /\ ~hist.cancel_after_initialize) =>
              /\ RaisedError(futs[RunF], NotImplementedError)
              /\ AwaitersGot(NotImplementedError)
              /\ is_aborted
              /\ should_stop

C7_Witness ==
    /\ InitializeOmitsSuper
    /\ Settled
    /\ RaisedError(futs[RunF], NotImplementedError)
    /\ SomeAwaiterGot(NotImplementedError)
    /\ is_aborted

\* C8: if should_stop becomes true while the run is in its initialize phase,
\* the run ends without main or cleanup ever being invoked, whether or not
\* initialize set is_initialized.
C8_StopDuringInitialize ==
    hist.stop_at = "await_initialize" =>
        /\ NeverInvoked(MainF)
        /\ NeverInvoked(CleanupF)
        /\ run_pc \in {"await_initialize", "finished"}

C8_Witness ==
    /\ hist.stop_at = "await_initialize"
    /\ is_initialized
    /\ Settled
    /\ Returned(futs[RunF])

\* C9 as stated: if the run is cancelled while main is suspended, cleanup is
\* invoked exactly once with the cancellation and, after cleanup returns, the
\* run ends cancelled.
C9_Original ==
    (Settled /\ hist.cancel_in_main) =>
        /\ cleanup_args = <<CancelledError>>
        /\ Returned(futs[CleanupF]) => cancelled(futs[RunF])

\* C9 amended: if the run is cancelled while main is suspended, cleanup is
\* invoked exactly once; when main ends cancelled (its body does not catch the
\* cancellation), cleanup receives the cancellation and, after cleanup
\* returns, the run ends cancelled.
C9_CancelDuringMain ==
    (Settled /\ hist.cancel_in_main) =>
        /\ calls[CleanupF] = 1
        /\ Len(cleanup_args) = 1
        /\ Outcome(futs[MainF]) = CancelledError =>
              /\ cleanup_args = <<CancelledError>>
              /\ Returned(futs[CleanupF]) => cancelled(futs[RunF])

C9_Witness ==
    /\ Settled
    /\ hist.cancel_in_main
    /\ cancelled(futs[MainF])
    /\ cleanup_args = <<CancelledError>>
    /\ Returned(futs[CleanupF])
    /\ cancelled(futs[RunF])

\* C10: whenever main ends by raising or by being cancelled, is_aborted is
\* true once the run is done.
C10_AbnormalMainAborts ==
    (Settled /\ futs[MainF].state # "NONE" /\ Outcome(futs[MainF]) # NoExc) => is_aborted

C12_AbortSetsFlags ==
    /\ [](hist.abort_called => (is_aborted /\ should_stop))
    /\ [][(hist'.abort_called /\ ~hist.abort_called) =>
            /\ is_aborted' /\ should_stop'
            /\ ~should_stop => hist'.stop_at = RunWhere(Cur)
            /\ hist'.stop_cancels =
                  hist.stop_cancels + (IF ~should_stop /\ is_started THEN 1 ELSE 0)]_vars

C12_Witness ==
    /\ hist.abort_called
    /\ hist.stop_at = "await_main"
    /\ hist.stop_cancels = 1
    /\ Settled
    /\ cancelled(futs[RunF])
    /\ should_stop
    /\ is_aborted

\* C13: if main raised and cleanup then raised an error of its own, the run
\* ends with main's error and awaiters receive main's error.
C13_CleanupNeverOverrides ==
    (/\ Settled
     /\ RaisedError(futs[MainF], "MainError")
     /\ RaisedError(futs[CleanupF], "CleanupError")
     /\ ~hist.cancel_after_main) =>
        /\ RaisedError(futs[RunF], "MainError")
        /\ AwaitersGot("MainError")

\* C14 as stated: if main returns and cleanup then raises, the run ends with
\* cleanup's error, awaiters receive it and is_aborted ends true.
C14_Original ==
    (Settled /\ Returned(futs[MainF]) /\ RaisedError(futs[CleanupF], "CleanupError")) =>
        /\ RaisedError(futs[RunF], "CleanupError")
        /\ AwaitersGot("CleanupError")
        /\ is_aborted

\* C14 amended: if main returned and cleanup raised, then run(), resumed
\* without a cancel request pending on the run handle, ends with cleanup's
\* error; a run that ended with cleanup's error delivers it to awaiters and
\* leaves is_aborted true.
C14_CleanupRaises ==
    /\ [][(/\ run_pc = "await_cleanup_else"
           /\ run_pc' = "finished"
           /\ RaisedError(futs[CleanupF], "CleanupError")
           /\ ~futs[RunF].must_cancel) => RaisedError(futs'[RunF], "CleanupError")]_vars
    /\ []((Settled /\ RaisedError(futs[RunF], "CleanupError")) =>
            (is_aborted /\ should_stop /\ AwaitersGot("CleanupError")))

C14_Witness ==
    /\ Settled
    /\ Returned(futs[MainF])
    /\ cleanup_args = <<NoExc>>
    /\ RaisedError(futs[CleanupF], "CleanupError")
    /\ RaisedError(futs[RunF], "CleanupError")
    /\ SomeAwaiterGot("CleanupError")
    /\ is_aborted

\* C15 as stated: if the run is cancelled while cleanup is suspended, the
\* run ends cancelled, awaiters receive the cancellation instead of main's
\* result and cleanup is not invoked again.
C15_Original ==
    (Settled /\ hist.cancel_in_cleanup) =>
        /\ calls[CleanupF] = 1
        /\ cancelled(futs[RunF])
        /\ AwaitersGot(CancelledError)

\* C15 amended: if the run is cancelled while cleanup is suspended, cleanup
\* is not invoked again; when cleanup ends with the cancellation (its body
\* does not handle it), the run ends cancelled and awaiters receive the
\* cancellation, not main's result or error.
C15_CancelDuringCleanup ==
    (Settled /\ hist.cancel_in_cleanup) =>
        /\ calls[CleanupF] = 1
        /\ Len(cleanup_args) = 1
        /\ Outcome(futs[CleanupF]) = CancelledError =>
              /\ cancelled(futs[RunF])
              /\ AwaitersGot(CancelledError)

C15_Witness ==
    /\ Settled
    /\ hist.cancel_in_cleanup
    /\ Returned(futs[MainF])
    /\ cancelled(futs[CleanupF])
    /\ cancelled(futs[RunF])
    /\ SomeAwaiterGot(CancelledError)

\* C16: in every step should_stop and is_aborted stay true once true,
\* is_initialized stays true once true, and is_initialized changes only in a
\* step of the initialize phase's own coroutine (the step ends the phase or
\* suspends its body), never in start, stop, abort or on_run_done.
C16_FlagsMonotonic ==
    [][/\ should_stop => should_stop'
       /\ is_aborted => is_aborted'
       /\ is_initialized => is_initialized'
       /\ is_initialized' # is_initialized =>
             /\ futs[InitializeF].state = "PENDING"
             /\ \/ futs'[InitializeF].state # "PENDING"
                \/ suspends'[InitializeF] # suspends[InitializeF]]_vars

C16_Witness ==
    /\ Settled
    /\ is_initialized
    /\ should_stop
    /\ is_aborted
    /\ hist.abort_called
    /\ RaisedError(futs[RunF], "MainError")

\* C17 as stated: whenever the run is done, should_stop is true.
C17_Original == is_done => should_stop

\* C17 amended: once on_run_done has run, should_stop is true; operations
\* suspended on the Lifecycle resume only after that.
C17_ShouldStopAfterObserver ==
    /\ Settled => should_stop
    /\ \A i \in 1..Len(ready) :
          ready[i].cb = "awaiter_wakeup" =>
              /\ is_done
              /\ should_stop \/ \E j \in 1..(i - 1) : ready[j].cb = "on_run_done"

C17_Witness ==
    /\ Settled
    /\ hist.stop_at = "never"
    /\ ~hist.abort_called
    /\ Returned(futs[RunF])
    /\ should_stop
    /\ SomeAwaiterGot(NoExc)

\* C18: start, stop and abort together make at most one cancel() call on
\* the run handle; once should_stop is true on a started Lifecycle no further
\* such call is made and should_stop stays true; once the run has finished
\* and on_run_done has run, no call changes the handles or any flag other
\* than is_aborted.
C18_StopIdempotent ==
    /\ [](hist.stop_cancels <= 1)
    /\ [][(should_stop /\ is_started) =>
            (hist'.stop_cancels = hist.stop_cancels /\ should_stop')]_vars
    /\ [][Settled => UNCHANGED <<futs, run_pc, should_stop, is_initialized, calls>>]_vars

C18_Witness ==
    /\ Settled
    /\ hist.stop_cancels = 1
    /\ hist.stop_at = "await_main"
    /\ hist.abort_called
    /\ start_calls = 2
    /\ cancelled(futs[RunF])

\* C19: awaiting a Lifecycle that is not started raises RuntimeError and
\* changes nothing else; a start() made afterwards still starts the run.
C19_AwaitBeforeStart ==
    /\ [](\A a \in Awaiters :
            awaiter[a].state = "raised" =>
                /\ awaiter[a].exc = RuntimeError
                /\ start_calls >= 1 => (is_started /\ start_errors = start_calls - 1))
    /\ [][\A a \in Awaiters :
            (awaiter'[a] # awaiter[a] /\ ~is_started) =>
                /\ awaiter'[a] = [state |-> "raised", exc |-> RuntimeError]
                /\ UNCHANGED <<futs, run_pc, exc_info, should_stop, is_initialized, is_aborted,
                               ready, calls, cleanup_args, start_calls, start_errors,
                               suspends, scope, hist>>]_vars

C19_Witness ==
    /\ \E a \in Awaiters : awaiter[a].state = "raised"
    /\ start_calls = 1
    /\ start_errors = 0
    /\ Settled
    /\ Returned(futs[RunF])
    /\ \A p \in Phases : calls[p] = 1

\* C20 as stated: the scope starts the Lifecycle on entry; when it exits
\* while main is suspended (abort() is never called), exit does not raise and
\* afterwards the Lifecycle is done with should_stop true and is_aborted false.
C20_Original ==
    /\ scope.state \in {"in", "exiting", "exited"} => is_started
    /\ (scope.state \in {"exited", "raised"} /\ hist.cancel_in_main /\ ~hist.abort_called) =>
          /\ scope.state = "exited"
          /\ is_done
          /\ should_stop
          /\ ~is_aborted

\* C20 amended: the scope starts the Lifecycle on entry; when it exits while
\* main is suspended, exit calls stop() and waits until the run is done and
\* should_stop is true; if the run ended cancelled, exit does not raise and,
\* abort() never having been called, is_aborted is false; exit raises
\* exactly when the run ended with an error other than the cancellation, and
\* then is_aborted is true.
C20_ScopeExit ==
    /\ scope.state \in {"in", "exiting", "exited"} => is_started
    /\ scope.state = "exiting" => (should_stop /\ hist.stop_cancels = 1)
    /\ (scope.state \in {"exited", "raised"} /\ hist.cancel_in_main) =>
          /\ Settled
          /\ should_stop
          /\ hist.stop_at = "await_main"
          /\ Outcome(futs[RunF]) = CancelledError =>
                /\ scope.state = "exited"
                /\ ~hist.abort_called => ~is_aborted
          /\ scope.state = "raised" <=>
                (Outcome(futs[RunF]) \notin {NoExc, CancelledError} /\ scope.exc = Outcome(futs[RunF]))
          /\ scope.state = "raised" => is_aborted

C20_Witness ==
    /\ scope.state = "exited"
    /\ hist.cancel_in_main
    /\ cancelled(futs[MainF])
    /\ cleanup_args = <<CancelledError>>
    /\ cancelled(futs[RunF])
    /\ Settled
    /\ should_stop
    /\ ~is_aborted

\* ---- properties of the exit stack ----
\* The entries of a log, in the order of their invocation.
Ids(log) == [i \in 1..Len(log) |-> log[i].e]

Reverse(q) == [i \in 1..Len(q) |-> q[Len(q) + 1 - i]]

\* The exception that leaves the n innermost of the nested `with` statements
\* equivalent to the latest unwind: the scope is left with the trigger, and
\* each exit passes the exception on, suppresses it or replaces it.
RECURSIVE NestedOutcome(_)
NestedOutcome(n) ==
    IF n = 0 THEN unwind.trigger
    ELSE IF entry_log[n].did = "suppress" THEN NoExc
    ELSE IF entry_log[n].did = "raise" THEN entry_log[n].exc
    ELSE NestedOutcome(n - 1)

\* Entry i of the log let the cancellation of the unwind propagate.
Propagated(i) == entry_log[i].cancelled /\ entry_log[i].exc = Cancelled(entry_log[i].e)

\* C21: a single unwind invokes the entries it found in exactly the reverse
\* of their registration order, each exactly once and one at a time: during
\* the unwind the entries invoked so far are the last registered ones, most
\* recent first, the others are still on the stack; after it all were
\* invoked; only the entry invoked last can be in progress (suspended), so
\* no entry is invoked before the one registered after it has finished.
C21_LIFO ==
    /\ Unwinding => ops.at_begin = exit_callbacks[unwind.stack] \o Reverse(Ids(entry_log))
    /\ unwind.pc = "done" => Ids(entry_log) = Reverse(ops.at_begin)
    /\ \A i \in 1..Len(entry_log) :
           entry_log[i].did = "running" => i = Len(entry_log) /\ unwind.pc = "awaiting"
    /\ \A e \in Entries : ops.invoked[e] <= 1

\* The older of two entries is suspended, after the younger has finished.
C21_Witness ==
    /\ unwind.pc = "awaiting"
    /\ Len(entry_log) >= 2
    /\ entry_log[1].e > entry_log[2].e

\* C22: if an entry raises during an unwind, the exception that was pending
\* when the entry ran (none if none) is the __context__ of the new exception,
\* and the new exception is the pending state: the next entry receives it,
\* and so does every later entry for which it is still the state (no entry
\* in between raised or signalled suppression).
C22_RaiseChains ==
    \A i \in 1..Len(entry_log) :
        entry_log[i].did = "raise" =>
            /\ context[entry_log[i].exc] = entry_log[i].got
            /\ \A j \in (i + 1)..Len(entry_log) :
                   (\A k \in (i + 1)..(j - 1) : entry_log[k].did = "return")
                       => entry_log[j].got = entry_log[i].exc

\* An entry raised while an exception was pending, and the next entry
\* received the new exception.
C22_Witness ==
    /\ Len(entry_log) >= 2
    /\ entry_log[1].did = "raise"
    /\ entry_log[1].got # NoExc
    /\ context[entry_log[1].exc] = entry_log[1].got
    /\ entry_log[2].got = entry_log[1].exc

\* C23: when an entry signals suppression, every entry after it is invoked
\* with no pending exception until a later entry raises; the entries up to
\* it received what nested `with` statements pass them (suppression is not
\* retroactive); an entry registered with callback() never signals
\* suppression, whatever its callable returns.
C23_Suppression ==
    \A i \in 1..Len(entry_log) :
        /\ entry_log[i].did = "suppress" =>
               /\ \A j \in (i + 1)..Len(entry_log) :
                      (\A k \in (i + 1)..(j - 1) : entry_log[k].did # "raise")
                          => entry_log[j].got = NoExc
               /\ \A j \in 1..i : entry_log[j].got = NestedOutcome(j - 1)
        /\ entry_log[i].kind = "callback" => entry_log[i].did # "suppress"

\* An entry suppressed a pending exception, the next one received none.
C23_Witness ==
    /\ Len(entry_log) >= 2
    /\ entry_log[1].did = "suppress"
    /\ entry_log[1].got # NoExc
    /\ entry_log[2].got = NoExc

\* C24: the outcome of an unwind is that of the equivalent nested scopes,
\* for every trigger and every behaviour of the entries: the caller sees the
\* exception still pending after the last entry (the trigger if no entry
\* raised or suppressed, else the latest one raised and not suppressed
\* later), and a clean completion if none is pending.
C24_NestedOutcome ==
    unwind.pc = "done" => Surfaced = NestedOutcome(Len(entry_log))

\* A scope left with an exception, which one entry suppressed, and a later
\* entry raised: the caller sees the later entry's error.
C24_Witness ==
    /\ unwind.pc = "done"
    /\ unwind.trigger # NoExc
    /\ Len(entry_log) >= 2
    /\ entry_log[1].did = "suppress"
    /\ entry_log[2].did = "raise"
    /\ Surfaced = entry_log[2].exc

\* The step that ends an unwind.
UnwindEnds == unwind.pc = "loop" /\ unwind'.pc = "done"

\* C25: when an unwind finishes, the stack it unwound is empty, however it
\* ends (cleanly, with an error, with the cancellation of the unwind); an
\* unwind that begins on an empty stack, as a second close() does, finishes
\* without having invoked anything.
C25_EmptyAfterUnwind ==
    [][UnwindEnds =>
           /\ exit_callbacks'[unwind.stack] = <<>>
           /\ ops.at_begin = <<>> => entry_log' = <<>>]_vars

\* The second close() of a stack whose entries the first one invoked.
C25_Witness ==
    /\ unwind.pc = "done"
    /\ unwind.stack = 1
    /\ ~ops.popped
    /\ ops.unwinds >= 2
    /\ ops.at_begin = <<>>
    /\ entry_log = <<>>
    /\ exit_callbacks[1] = <<>>
    /\ \E e \in Entries : ops.invoked[e] = 1

\* C26 as stated: once the cancellation of the unwind has propagated out of
\* the suspended entry, no further entry is invoked.
C26_Original ==
    \A i \in 1..Len(entry_log) : Propagated(i) => i = Len(entry_log)

\* C26: if the unwind is cancelled while an entry is suspended, the
\* cancellation is thrown into that entry; the unwind goes on: every entry
\* the stack held is invoked, in LIFO order, and a cancellation that
\* propagated out of the entry is the pending exception the next entry
\* receives, chained to the one pending before.
C26_CancelContinues ==
    \A i \in 1..Len(entry_log) :
        entry_log[i].cancelled /\ entry_log[i].did # "running" =>
            /\ unwind.pc = "done" => Ids(entry_log) = Reverse(ops.at_begin)
            /\ unwind.pc = "loop" =>
                   ops.at_begin = exit_callbacks[unwind.stack] \o Reverse(Ids(entry_log))
            /\ Propagated(i) => context[entry_log[i].exc] = entry_log[i].got
            /\ Propagated(i) /\ i < Len(entry_log) => entry_log[i + 1].got = entry_log[i].exc

\* The entry suspended at the cancellation let it propagate, and the entry
\* registered before it was then invoked with the cancellation pending.
C26_Witness ==
    /\ unwind.pc = "done"
    /\ Len(entry_log) >= 2
    /\ Propagated(1)
    /\ entry_log[2].got = entry_log[1].exc

\* C27 as stated: an unwind cancelled while draining ends by raising a
\* cancellation to its caller.
C27_Original ==
    unwind.pc = "done" /\ (\E i \in 1..Len(entry_log) : entry_log[i].cancelled)
        => Surfaced \in Cancellations

\* C27: an unwind cancelled while draining raises that cancellation to its
\* caller if it propagated out of the suspended entry and no later entry
\* raised or signalled suppression; it does not raise it if the suspended
\* entry handled it, or if a later entry signalled suppression.
C27_CancelSurfacesIfPending ==
    unwind.pc = "done" =>
        \A i \in 1..Len(entry_log) :
            entry_log[i].cancelled =>
                /\ Propagated(i) /\ (\A j \in (i + 1)..Len(entry_log) : entry_log[j].did = "return")
                       => Surfaced = Cancelled(entry_log[i].e)
                /\ ~Propagated(i) => Surfaced # Cancelled(entry_log[i].e)
                /\ (\E j \in (i + 1)..Len(entry_log) : entry_log[j].did = "suppress")
                       => Surfaced # Cancelled(entry_log[i].e)

\* close() was cancelled, the suspended entry caught the cancellation and
\* returned, and close() completed without raising.
C27_Witness ==
    /\ unwind.pc = "done"
    /\ unwind.trigger = NoExc
    /\ Len(entry_log) >= 1
    /\ entry_log[1].cancelled
    /\ entry_log[1].did = "return"
    /\ Surfaced = NoExc

\* An entry waits for the event, which only an entry invoked after it sets.
Deadlocked ==
    /\ unwind.pc = "awaiting"
    /\ unwind.waits = "event"
    /\ ~event
    /\ ~unwind.must_cancel

\* C28: the unwind does not resolve ordering deadlocks: while an entry waits
\* for an event that is not set, the entries registered before it are not
\* invoked (so none of them sets the event) and the unwind does not advance;
\* the only step that ends the wait is the cancellation of the unwind (which
\* a timeout is).
C28_Deadlock ==
    [][Deadlocked =>
           /\ unwind' = [unwind EXCEPT !.must_cancel = TRUE]
           /\ exit_callbacks' = exit_callbacks
           /\ event' = event
           /\ Len(entry_log') = Len(entry_log)]_vars

\* close() is cancelled while the last registered entry waits for the event
\* and an older entry is still on the stack.
C28_Witness ==
    /\ unwind.pc = "awaiting"
    /\ unwind.trigger = NoExc
    /\ unwind.waits = "event"
    /\ ~event
    /\ unwind.must_cancel
    /\ exit_callbacks[unwind.stack] # <<>>

\* C29 as stated: when the body of the scope is cancelled, the cancellation
\* surfaces to the scope's caller when no entry suppresses it.
C29_Original ==
    unwind.pc = "done" /\ unwind.trigger = CancelledError =>
        ((\A i \in 1..Len(entry_log) : entry_log[i].did # "suppress") => Surfaced = CancelledError)

\* C29: when the body of the scope is cancelled, every entry is invoked
\* exactly once in reverse order of entry; an entry receives the
\* cancellation as the pending exception if no entry before it raised or
\* signalled suppression, and the cancellation surfaces to the scope's
\* caller if no entry raised or signalled suppression.
C29_BodyCancelled ==
    unwind.pc = "done" /\ unwind.trigger = CancelledError =>
        /\ Ids(entry_log) = Reverse(ops.at_begin)
        /\ \A i \in 1..Len(entry_log) :
               /\ ops.invoked[entry_log[i].e] = 1
               /\ (\A k \in 1..(i - 1) : entry_log[k].did = "return")
                      => entry_log[i].got = CancelledError
        /\ (\A i \in 1..Len(entry_log) : entry_log[i].did = "return") => Surfaced = CancelledError

\* test_cancel_deadlock: two entries that return, the body is cancelled.
C29_Witness ==
    /\ unwind.pc = "done"
    /\ unwind.trigger = CancelledError
    /\ Len(entry_log) >= 2
    /\ \A i \in 1..Len(entry_log) : entry_log[i].did = "return" /\ entry_log[i].got = CancelledError
    /\ Surfaced = CancelledError

\* The entries pop_all() moved to the new stack.
Transferred == {ops.transferred[k] : k \in 1..Len(ops.transferred)}

\* C30: pop_all() invokes no entry, leaves the original stack empty and
\* gives the new stack the previous entries in the same order: the new
\* stack holds a prefix of them, not yet invoked, the others having been
\* invoked once by an unwind of the new stack, which invokes them in LIFO
\* order; the original holds, and its unwinds invoke, none of them; the
\* entries registered on the original afterwards are not on the new stack.
C30_PopAll ==
    ops.popped =>
        /\ Len(exit_callbacks[2]) <= Len(ops.transferred)
        /\ \A k \in 1..Len(ops.transferred) :
               IF k <= Len(exit_callbacks[2])
               THEN exit_callbacks[2][k] = ops.transferred[k] /\ ops.invoked[ops.transferred[k]] = 0
               ELSE ops.invoked[ops.transferred[k]] = 1
        /\ \A k \in 1..Len(exit_callbacks[1]) : exit_callbacks[1][k] \notin Transferred
        /\ unwind.pc = "done" /\ unwind.stack = 2 /\ ops.at_begin # <<>>
               => Ids(entry_log) = Reverse(ops.transferred)
        /\ unwind.stack = 1 => \A i \in 1..Len(entry_log) : entry_log[i].e \notin Transferred

\* The new stack was unwound and invoked what pop_all() moved, while an
\* entry registered on the original afterwards is still on the original.
C30_Witness ==
    /\ ops.popped
    /\ unwind.pc = "done"
    /\ unwind.stack = 2
    /\ ops.transferred # <<>>
    /\ Ids(entry_log) = Reverse(ops.transferred)
    /\ exit_callbacks[1] # <<>>
    /\ exit_callbacks[2] = <<>>

C40_Original ==
    (Settled /\ op.delegated /\ ~hist.abort_called /\ hist.stop_cancels = 0) =>
        /\ cancelled(futs[RunF])
        /\ AwaitersGot(CancelledError)
        /\ should_stop
        /\ ~is_aborted

\* C40: awaiting a started Lifecycle is not shielded.  Cancelling a task
\* suspended awaiting the Lifecycle while the run is pending hands the
\* request to the run handle, which cancels the phase that is suspended (its
\* next step receives CancelledError); the task then receives what the run ends with, like every
\* other awaiter: if the run ends cancelled, all of them receive the
\* cancellation and the Lifecycle is done with should_stop = true and, no
\* phase having called abort(), is_aborted = false.
C40_AwaitNotShielded ==
    /\ [](/\ (op.state = "done" /\ ~op.must_cancel) => op.exc = Outcome(futs[RunF])
          /\ (Settled /\ op.delegated /\ cancelled(futs[RunF])) =>
                 /\ AwaitersGot(CancelledError)
                 /\ should_stop
                 /\ ~hist.abort_called => ~is_aborted)
    /\ [][(op.state = "waiting" /\ ~op.delegated /\ op'.delegated) =>
              /\ is_alive
              /\ WaiterState(Cur) = "suspended" =>
                     \/ futs'[futs[RunF].fut_waiter].fut_waiter = "ext_cancelled"
                     \/ futs'[futs[RunF].fut_waiter].must_cancel]_vars

\* The task was cancelled while main was suspended; the run ended cancelled
\* and the task and another awaiter received the cancellation.
C40_Witness ==
    /\ Settled
    /\ op.delegated
    /\ hist.cancel_in_main
    /\ cancelled(futs[RunF])
    /\ op.state = "done"
    /\ op.exc = CancelledError
    /\ SomeAwaiterGot(CancelledError)
    /\ should_stop
    /\ ~is_aborted

\* C36: exec() returns normally when the App's run ends normally or by
\* cancellation, and raises the run's error when it ends with any other
\* failure; the registry entry of the loop exists from the start of the run
\* as long as the loop runs it, and is removed when exec() has returned or
\* raised (also when start() raised because the App was started before).
C36_Exec ==
    /\ app.pc = "idle" => ~app.registered
    /\ app.pc = "running" => app.registered /\ is_started
    /\ (\E t \in TaskNames : futs[t].entered) => (app.registered \/ app.pc \in {"returned", "raised"})
    /\ app.pc = "returned" =>
           /\ ~app.registered
           /\ done(futs[RunF]) /\ start_errors = 0
           /\ Outcome(futs[RunF]) \in {NoExc, CancelledError}
    /\ app.pc = "raised" =>
           /\ ~app.registered
           /\ IF start_errors > 0 THEN app.exc = RuntimeError
              ELSE /\ done(futs[RunF]) /\ start_errors = 0
                   /\ app.exc = Outcome(futs[RunF])
                   /\ app.exc \notin {NoExc, CancelledError}
    /\ (start_errors = 0 /\ Settled /\ app.pc = "running") =>
           \E i \in 1..Len(ready) : ready[i].cb = "_run_until_complete_cb"

\* A stop request (the signal handler) cancelled main: the run ended
\* cancelled and exec() returned normally, the registry entry removed.
C36_Witness ==
    /\ app.pc = "returned"
    /\ ~app.registered
    /\ cancelled(futs[RunF])
    /\ futs[MainF].entered
    /\ hist.stop_at = "await_main"

\* C38 as stated: after stop() on a started Lifecycle that is not done, the
\* run eventually is done, when every phase ends once it receives a
\* cancellation.
C38_Original == (should_stop /\ is_alive) ~> is_done

\* C38: after stop() on a started Lifecycle that is not done, when every
\* phase ends once it receives a cancellation, the run eventually is done or
\* cleanup is waiting for an awaitable of its own (stop() takes effect once,
\* so a cleanup that begins after it receives no cancellation).
C38_StopTerminates ==
    (should_stop /\ is_alive) ~>
        (is_done \/ (futs[CleanupF].state = "PENDING" /\ futs[CleanupF].fut_waiter = "ext_pending"))

\* stop() hit main while it was suspended; cleanup waited and ended, the run
\* is done.
C38_Witness ==
    /\ is_done
    /\ hist.stop_at = "await_main"
    /\ hist.cancel_in_main
    /\ suspends[CleanupF] > 0
    /\ done(futs[CleanupF])

\* ---- properties of the TaskGroup and of wait_one ----
\* The remove_task callbacks of handle h: attached to it or queued.
RECURSIVE CountRemove(_, _)
CountRemove(cbs, h) ==
    IF cbs = <<>> THEN 0
    ELSE (IF Head(cbs) = HandleCallback("remove_task", h) THEN 1 ELSE 0) + CountRemove(Tail(cbs), h)

NumRemove(h) == CountRemove(handles[h].callbacks, h) + CountRemove(loop, h)

\* The operation awaited a handle that was a member when it began to wait,
\* has resumed, and nobody added the handle anew.
AwaitedMember ==
    /\ observer.state = "resumed"
    /\ observer.on \in observer.members
    /\ handles[observer.on].inserts = 1

\* A step of the loop's first callback removes its done handle and nothing else.
RemovesItsHandle ==
    /\ Head(loop).h \in tasks
    /\ handles[Head(loop).h].state \in {"FINISHED", "CANCELLED"}
    /\ tasks' = tasks \ {Head(loop).h}

\* C31: when a member completes, its completion callback removes exactly
\* that member and every other member stays; an operation that awaited one of
\* the n members to completion finds the handle no longer contained and the
\* members that have not completed still there: with the others pending the
\* size is n - 1.
C31_RemovesOnlyCompleted ==
    /\ [](AwaitedMember =>
            /\ observer.on \notin observer.saw
            /\ \A o \in observer.members \ {observer.on} :
                  handles[o].state = "PENDING" => o \in observer.saw
            /\ ((\A o \in observer.members \ {observer.on} : handles[o].state = "PENDING")
                    /\ observer.saw \subseteq observer.members)
                 => Cardinality(observer.saw) = Cardinality(observer.members) - 1)
    /\ [][((loop # <<>> /\ Head(loop).cb = "remove_task" /\ loop' = Tail(loop)) => RemovesItsHandle)
           /\ ((tasks' # tasks /\ (tasks' \subseteq tasks)) =>
                  (loop # <<>> /\ Head(loop).cb = "remove_task" /\ loop' = Tail(loop)))]_vars

\* Two members, the operation awaited the first to completion: the group
\* holds the second alone, which is pending.
C31_Witness ==
    /\ AwaitedMember
    /\ observer.on = 1
    /\ observer.members = {1, 2}
    /\ observer.saw = {2}
    /\ tasks = {2}
    /\ handles[2].state = "PENDING"

\* C33: an operation that waits on a member t and resumes after t's
\* completion finds t no longer in the group, whether it began to wait before
\* or after t was added (t was a member when it completed and nobody added it
\* anew).
C33_ObserverSeesRemoved ==
    (/\ observer.state = "resumed"
     /\ handles[observer.on].member_at_done
     /\ handles[observer.on].inserts = 1)
        => observer.on \notin observer.saw

\* C34: adding a handle that is a member leaves the group, the callbacks
\* of the handle and the queue of the loop as they are; a member has exactly
\* one remove_task observer, a handle outside the group none; every
\* insertion is undone by one removal and no removal fails.
C34_AddTwice ==
    /\ [](\A h \in Handles :
            /\ NumRemove(h) = IF h \in tasks THEN 1 ELSE 0
            /\ handles[h].removals = handles[h].inserts - (IF h \in tasks THEN 1 ELSE 0)
            /\ ~handles[h].key_error)
    /\ [][\A h \in Handles : (handles'[h].adds > handles[h].adds /\ h \in tasks) =>
             /\ tasks' = tasks
             /\ handles'[h].callbacks = handles[h].callbacks
             /\ handles'[h].inserts = handles[h].inserts
             /\ loop' = loop]_vars

\* A handle was added twice while it was a member, completed and was
\* removed once; the loop has nothing left to run.
C34_Witness ==
    \E h \in Handles :
        /\ handles[h].adds = 2
        /\ handles[h].inserts = 1
        /\ handles[h].removals = 1
        /\ handles[h].state = "FINISHED"
        /\ h \notin tasks
        /\ loop = <<>>

\* C32: on scope exit with a non-empty group cancel() is called on every
\* member, the exit returns only when all of them are done, it raises
\* nothing whatever their outcomes, and the group is empty afterwards.
C32_ScopeExit ==
    /\ group_exit.pc \in {"waiting", "exited"} =>
           \A h \in group_exit.fs : handles[h].cancel_called
    /\ group_exit.pc = "waiting" => group_exit.fs # {}
    /\ group_exit.pc = "exited" =>
           /\ \A h \in group_exit.fs : handles[h].state \in {"FINISHED", "CANCELLED"}
           /\ group_exit.raised = "none"
           /\ tasks = {}

\* The scope of two members ended: one ended cancelled, the other caught
\* the cancellation and failed; the exit has returned.
C32_Witness ==
    /\ group_exit.pc = "exited"
    /\ group_exit.fs = {1, 2}
    /\ handles[1].outcome = "cancelled"
    /\ handles[2].outcome = "error"
    /\ tasks = {}

\* C39: when scope exit has returned, every handle that was added to the
\* group (also while the exit was suspended) is done, and no completion
\* callback fails to find its handle in the set.
C39_NoMemberDropped ==
    /\ group_exit.pc = "exited" =>
           \A h \in Handles : handles[h].inserts > 0 => handles[h].state \in {"FINISHED", "CANCELLED"}
    /\ \A h \in Handles : ~handles[h].key_error

\* wait_one has returned or raised: with the outcome of the handle that
\* completed first.
WaitOneOutcome ==
    joint.pc \in {"returned", "raised"} =>
        /\ joint.first \in joint.fs
        /\ joint.of = joint.first
        /\ joint.outcome = handles[joint.first].outcome
        /\ (joint.pc = "returned") <=> (joint.outcome = "result")

\* While wait_one waits, its handles are pending, or the first completion
\* is on its way to wake it.
WaitOneWakes ==
    joint.pc = "waiting" =>
        IF joint.first = 0 THEN \A h \in joint.fs : handles[h].state = "PENDING"
        ELSE \E i \in 1..Len(loop) :
                 \/ loop[i] = HandleCallback("as_completed", joint.first)
                 \/ loop[i] = HandleCallback("wait_one_wakeup", joint.first)

\* C35: wait_one over pending handles resumes once one of them has
\* completed, returns the result or raises the error of the handle that
\* completed first, and none of its steps completes a handle or asks it to
\* cancel.
C35_WaitOne ==
    /\ [](WaitOneOutcome /\ WaitOneWakes)
    /\ [][(joint'.pc # joint.pc \/ joint'.done_q # joint.done_q) => \A h \in Handles :
                            (/\ handles'[h].state = handles[h].state
                             /\ handles'[h].outcome = handles[h].outcome
                             /\ handles'[h].cancel_req = handles[h].cancel_req)]_vars

\* wait_one over two handles raised the error of the first; the second is
\* pending and was not asked to cancel.
C35_Witness ==
    /\ joint.pc = "raised"
    /\ joint.fs = {1, 2}
    /\ joint.of = 1
    /\ joint.outcome = "error"
    /\ handles[2].state = "PENDING"
    /\ ~handles[2].cancel_req

====
